---- MODULE Spec2Model ----
(***************************************************************************)
(* Pathce: cardinality estimation for graph patterns.                      *)
(*                                                                         *)
(* The module models the pattern layer (raw patterns, the canonicalizer    *)
(* and the canonical code), the DuckDB-backed catalog, the heuristic       *)
(* decomposer, the join engine, the estimator and the path-statistics      *)
(* analyzer.  Each concern has its own specification over the shared       *)
(* variables; pure functions of the code are operators that compute what   *)
(* the code computes, in the order the code computes it.                   *)
(***************************************************************************)
EXTENDS Integers, Sequences, FiniteSets, TLC

VARIABLES
    pattern,      \* pattern layer: the raw pattern handed to to_general
    other,        \* pattern layer: a second raw pattern (renamed or unrelated)
    code,         \* pattern layer: encode() of pattern
    otherCode,    \* pattern layer: encode() of other
    relation,     \* pattern layer: how other was obtained from pattern
    catalog,      \* the DuckCatalog
    call,         \* the catalog or estimator call made last, with its input
    result,       \* what that call returned
    dir,          \* the directory the catalog is exported to
    schema,       \* the Schema of the graph
    graph,        \* the LabeledGraph the statistics are computed over
    bucket_map,   \* vertex label -> (vertex id -> bucket id)
    statistics,   \* canonical code -> PathStatistics, as the analyzer returns it
    binner,       \* the GreedyBinner of one vertex label
    rerun,        \* the GreedyBinner of a second run over the same inputs
    bucket_value_lists,   \* bucket id -> the vertex ids pushed so far
    bucket_values_mutex,  \* bucket id -> the worker that holds its lock
    pending,              \* the entries of the bucket map no worker has taken
    workers               \* worker -> where it is in the closure of for_each

patternVars == <<pattern, other, code, otherCode, relation>>

catalogVars == <<catalog, call, result, dir>>

statsVars == <<schema, graph, bucket_map, statistics>>

binVars == <<binner, rerun>>

workerVars == <<bucket_value_lists, bucket_values_mutex, pending, workers>>

vars == <<patternVars, catalogVars, statsVars, binVars, workerVars>>

(***************************************************************************)
(* Generic helpers.                                                        *)
(***************************************************************************)
Range(s) == {s[i] : i \in DOMAIN s}

Reverse(s) == [i \in 1..Len(s) |-> s[Len(s) + 1 - i]]

RECURSIVE Flatten(_)
Flatten(ss) == IF ss = <<>> THEN <<>> ELSE Head(ss) \o Flatten(Tail(ss))

SetMin(S) == CHOOSE x \in S : \A y \in S : x <= y

SetMax(S) == CHOOSE x \in S : \A y \in S : x >= y

\* std::cmp::Ordering as an integer: Less = -1, Equal = 0, Greater = 1.
CmpInt(a, b) == IF a < b THEN -1 ELSE IF a > b THEN 1 ELSE 0

\* Lexicographic comparison of two equally long integer tuples.
RECURSIVE CmpSeq(_, _)
CmpSeq(s1, s2) ==
    IF s1 = <<>> THEN 0
    ELSE IF Head(s1) # Head(s2) THEN CmpInt(Head(s1), Head(s2))
    ELSE CmpSeq(Tail(s1), Tail(s2))

(***************************************************************************)
(* common/types.rs, common/graph.rs                                        *)
(***************************************************************************)
\* TagId is u8.
TagIdModulus == 256

\* LabelId is u32 in the code.  TLC's integers are 32-bit signed, so the model
\* keeps LabelId's arithmetic at a width of 30 bits: LabelId::MAX is 2^30 - 1.
LabelIdMax == 1073741823

Out == 0

In == 1

(***************************************************************************)
(* pattern/mod.rs: PatternVertex, PatternEdge, PatternAdjacency and the    *)
(* GraphPattern accessors.                                                 *)
(***************************************************************************)
PatternVertex(tag_id, label_id) == [tag_id |-> tag_id, label_id |-> label_id]

PatternEdge(tag_id, src, dst, label_id) ==
    [tag_id |-> tag_id, src |-> src, dst |-> dst, label_id |-> label_id]

RawPattern(vertices, edges) == [vertices |-> vertices, edges |-> edges]

VertexTags(p) == {v.tag_id : v \in Range(p.vertices)}

EdgeTags(p) == {e.tag_id : e \in Range(p.edges)}

get_vertex(p, tag_id) == CHOOSE v \in Range(p.vertices) : v.tag_id = tag_id

get_edge(p, tag_id) == CHOOSE e \in Range(p.edges) : e.tag_id = tag_id

LabelOf(p, tag_id) == get_vertex(p, tag_id).label_id

outgoing_adjacencies(p, tag_id) ==
    LET es == SelectSeq(p.edges, LAMBDA e : e.src = tag_id)
    IN  [i \in 1..Len(es) |->
            [edge_tag_id |-> es[i].tag_id, edge_label_id |-> es[i].label_id,
             neighbor_tag_id |-> es[i].dst, direction |-> Out]]

incoming_adjacencies(p, tag_id) ==
    LET es == SelectSeq(p.edges, LAMBDA e : e.dst = tag_id)
    IN  [i \in 1..Len(es) |->
            [edge_tag_id |-> es[i].tag_id, edge_label_id |-> es[i].label_id,
             neighbor_tag_id |-> es[i].src, direction |-> In]]

adjacencies(p, tag_id) ==
    outgoing_adjacencies(p, tag_id) \o incoming_adjacencies(p, tag_id)

get_vertex_degree(p, tag_id) ==
    Len(incoming_adjacencies(p, tag_id)) + Len(outgoing_adjacencies(p, tag_id))

is_cyclic(p) ==
    IF p.vertices = <<>> THEN FALSE ELSE Len(p.edges) > Len(p.vertices) - 1

is_cycle(p) ==
    IF p.vertices = <<>> THEN FALSE
    ELSE \A v \in Range(p.vertices) : get_vertex_degree(p, v.tag_id) = 2

\* The loop returns at the first vertex of degree 0 or of degree above 2.
is_path(p) ==
    IF p.vertices = <<>> THEN FALSE
    ELSE LET deg(i) == get_vertex_degree(p, p.vertices[i].tag_id)
             stops == {i \in DOMAIN p.vertices : deg(i) = 0 \/ deg(i) > 2}
         IN  IF stops # {}
             THEN deg(SetMin(stops)) = 0 /\ Len(p.vertices) = 1 /\ p.edges = <<>>
             ELSE Cardinality({i \in DOMAIN p.vertices : deg(i) = 1}) = 2

(***************************************************************************)
(* pattern/raw.rs: is_connected                                            *)
(***************************************************************************)
RECURSIVE Reach(_, _)
Reach(p, visited) ==
    LET next == visited \cup
                {a.neighbor_tag_id : a \in UNION {Range(adjacencies(p, t)) : t \in visited}}
    IN  IF next = visited THEN visited ELSE Reach(p, next)

is_connected(p) ==
    IF Len(p.vertices) <= 1 THEN TRUE
    ELSE Reach(p, {p.vertices[1].tag_id}) = VertexTags(p)

(***************************************************************************)
(* pattern/canonical.rs: Canonicalizer.  A canonicalizer state is a record *)
(* of adjacencies_map, vertex_group_map, vertex_rank_map, edge_rank_map    *)
(* and has_converged; an unassigned rank (None) is -1, which orders below  *)
(* every assigned rank as None orders below Some.  vertex_groups is read   *)
(* off vertex_group_map: a group is the vertices of one label and one      *)
(* group id, in vertex-list order (the order the code pushes them in).     *)
(***************************************************************************)
NoRank == -1

cmp_adjacency(p, c, a1, a2) ==
    LET n1 == a1.neighbor_tag_id
        n2 == a2.neighbor_tag_id
    IN  CmpSeq(<<a1.direction, LabelOf(p, n1), a1.edge_label_id,
                 c.vertex_group_map[n1], c.vertex_rank_map[n1]>>,
               <<a2.direction, LabelOf(p, n2), a2.edge_label_id,
                 c.vertex_group_map[n2], c.vertex_rank_map[n2]>>)

\* slice::sort_unstable_by on a slice of at most 20 elements is an insertion
\* sort: each element is shifted left while it compares Less than its
\* predecessor.
RECURSIVE insert_tail(_, _, _, _)
insert_tail(p, c, s, x) ==
    IF s = <<>> \/ cmp_adjacency(p, c, x, s[Len(s)]) >= 0
    THEN Append(s, x)
    ELSE Append(insert_tail(p, c, SubSeq(s, 1, Len(s) - 1), x), s[Len(s)])

RECURSIVE sort_unstable_by(_, _, _, _)
sort_unstable_by(p, c, s, n) ==
    IF n = 0 THEN <<>>
    ELSE insert_tail(p, c, sort_unstable_by(p, c, s, n - 1), s[n])

sort_vertex_adjacencies(p, c) ==
    [c EXCEPT !.adjacencies_map =
        [t \in VertexTags(p) |->
            sort_unstable_by(p, c, c.adjacencies_map[t], Len(c.adjacencies_map[t]))]]

Canonicalizer_new(p) ==
    sort_vertex_adjacencies(p,
        [adjacencies_map  |-> [t \in VertexTags(p) |-> adjacencies(p, t)],
         vertex_group_map |-> [t \in VertexTags(p) |-> 0],
         vertex_rank_map  |-> [t \in VertexTags(p) |-> NoRank],
         edge_rank_map    |-> [t \in EdgeTags(p) |-> NoRank],
         has_converged    |-> FALSE])

cmp_vertex(p, c, v1, v2) ==
    LET k1 == <<LabelOf(p, v1), Len(outgoing_adjacencies(p, v1)),
                Len(incoming_adjacencies(p, v1))>>
        k2 == <<LabelOf(p, v2), Len(outgoing_adjacencies(p, v2)),
                Len(incoming_adjacencies(p, v2))>>
        a1 == c.adjacencies_map[v1]
        a2 == c.adjacencies_map[v2]
        diff == {i \in DOMAIN a1 : cmp_adjacency(p, c, a1[i], a2[i]) # 0}
    IN  IF k1 # k2 THEN CmpSeq(k1, k2)
        ELSE IF diff = {} THEN 0
        ELSE cmp_adjacency(p, c, a1[SetMin(diff)], a2[SetMin(diff)])

\* Position of a tag in the vertex list.
VertexPos(p, t) == CHOOSE i \in DOMAIN p.vertices : p.vertices[i].tag_id = t

\* The canonicalizer after the groups have been recomputed.
regrouped(p, c, updated) ==
    sort_vertex_adjacencies(p,
        [c EXCEPT !.vertex_group_map = updated,
                  !.has_converged = (updated = c.vertex_group_map)])

\* v comes after u in the sorted group: of the two, the one that stands first
\* in the list is the left operand of the comparison.
sorted_after(p, c, v, u) ==
    cmp_vertex(p, c,
               IF VertexPos(p, u) > VertexPos(p, v) THEN v ELSE u,
               IF VertexPos(p, u) > VertexPos(p, v) THEN u ELSE v)
        = (IF VertexPos(p, u) > VertexPos(p, v) THEN 1 ELSE -1)

refine_vertex_groups(p, c) ==
    regrouped(p, c,
        [v \in VertexTags(p) |->
            c.vertex_group_map[v]
            + Cardinality({u \in VertexTags(p) \ {v} :
                  /\ LabelOf(p, u) = LabelOf(p, v)
                  /\ c.vertex_group_map[u] = c.vertex_group_map[v]
                  /\ sorted_after(p, c, v, u)})])

\* Iterator::min_by returns the first of several equally minimal elements.
get_pattern_ranking_start_vertex(p, c) ==
    LET min_label == SetMin({v.label_id : v \in Range(p.vertices)})
        cand == {i \in DOMAIN p.vertices : p.vertices[i].label_id = min_label}
        g(i) == c.vertex_group_map[p.vertices[i].tag_id]
        best == SetMin({i \in cand : \A j \in cand : g(i) <= g(j)})
    IN  p.vertices[best].tag_id

\* One iteration of the while loop of pattern_ranking_from_vertex; s holds the
\* canonicalizer, the stack (top last), visited_edges and the two counters.
RECURSIVE ranking_loop(_, _)
ranking_loop(p, s) ==
    IF s.stack = <<>> THEN s.c
    ELSE
        LET adj == s.stack[Len(s.stack)]
            rest == SubSeq(s.stack, 1, Len(s.stack) - 1)
            e == adj.edge_tag_id
            n == adj.neighbor_tag_id
        IN  IF e \in s.visited THEN ranking_loop(p, [s EXCEPT !.stack = rest])
            ELSE
                LET fresh == s.c.vertex_rank_map[n] = NoRank
                    c1 == [s.c EXCEPT !.edge_rank_map[e] = s.next_edge_rank,
                                      !.vertex_rank_map[n] =
                                          IF fresh THEN s.next_vertex_rank ELSE @]
                    c2 == sort_vertex_adjacencies(p, c1)
                    visited == s.visited \cup {e}
                    pushed == SelectSeq(Reverse(c2.adjacencies_map[n]),
                                        LAMBDA a : a.edge_tag_id \notin visited)
                IN  ranking_loop(p,
                        [c |-> c2, stack |-> rest \o pushed, visited |-> visited,
                         next_vertex_rank |->
                             IF fresh THEN s.next_vertex_rank + 1 ELSE s.next_vertex_rank,
                         next_edge_rank |-> s.next_edge_rank + 1])

pattern_ranking_from_vertex(p, c, tag_id) ==
    ranking_loop(p,
        [c |-> [c EXCEPT !.vertex_rank_map[tag_id] = 0],
         stack |-> Reverse(c.adjacencies_map[tag_id]),
         visited |-> {}, next_vertex_rank |-> 1, next_edge_rank |-> 0])

pattern_ranking(p, c) ==
    IF p.vertices = <<>> THEN c
    ELSE pattern_ranking_from_vertex(p, c, get_pattern_ranking_start_vertex(p, c))

RECURSIVE refine_until_converged(_, _)
refine_until_converged(p, c) ==
    IF c.has_converged THEN c ELSE refine_until_converged(p, refine_vertex_groups(p, c))

canonicalize(p) == pattern_ranking(p, refine_until_converged(p, Canonicalizer_new(p)))

(***************************************************************************)
(* pattern/raw.rs: to_general.  The result is either an error or the       *)
(* general pattern: the raw lists with the two rank maps.                  *)
(***************************************************************************)
HasDuplicates(tags) == \E i, j \in DOMAIN tags : i < j /\ tags[i] = tags[j]

\* The raw lists with the two rank maps of the canonicalizer.
ranked_pattern(raw, c) ==
    [ok |-> TRUE,
     pattern |-> [vertices |-> raw.vertices, edges |-> raw.edges,
                  vertex_rank_map |-> c.vertex_rank_map,
                  edge_rank_map |-> c.edge_rank_map]]

\* to_general without the test of connectivity.
to_general_unconnected(raw) ==
    IF HasDuplicates([i \in DOMAIN raw.vertices |-> raw.vertices[i].tag_id])
    THEN [ok |-> FALSE, err |-> "duplicate vertex tag id"]
    ELSE IF HasDuplicates([i \in DOMAIN raw.edges |-> raw.edges[i].tag_id])
    THEN [ok |-> FALSE, err |-> "duplicate edge tag id"]
    ELSE IF \E e \in Range(raw.edges) : e.src \notin VertexTags(raw) \/ e.dst \notin VertexTags(raw)
    THEN [ok |-> FALSE, err |-> "vertex not exist"]
    ELSE ranked_pattern(raw, canonicalize(raw))

to_general(raw) ==
    IF HasDuplicates([i \in DOMAIN raw.vertices |-> raw.vertices[i].tag_id])
    THEN [ok |-> FALSE, err |-> "duplicate vertex tag id"]
    ELSE IF HasDuplicates([i \in DOMAIN raw.edges |-> raw.edges[i].tag_id])
    THEN [ok |-> FALSE, err |-> "duplicate edge tag id"]
    ELSE IF \E e \in Range(raw.edges) : e.src \notin VertexTags(raw) \/ e.dst \notin VertexTags(raw)
    THEN [ok |-> FALSE, err |-> "vertex not exist"]
    ELSE IF ~is_connected(raw)
    THEN [ok |-> FALSE, err |-> "pattern not connected"]
    ELSE ranked_pattern(raw, canonicalize(raw))

get_vertex_rank(p, tag_id) == p.vertex_rank_map[tag_id]

get_edge_rank(p, tag_id) == p.edge_rank_map[tag_id]

get_vertex_from_rank(p, rank) ==
    CHOOSE v \in Range(p.vertices) : p.vertex_rank_map[v.tag_id] = rank

(***************************************************************************)
(* pattern/raw.rs: to_path; pattern/path.rs: PathPattern.  A path pattern  *)
(* is the general pattern with the direction of every edge along the walk  *)
(* from the first vertex of the list to the last.                          *)
(***************************************************************************)
\* EdgeCardinality::default()
ManyToMany == "ManyToMany"

\* The walk of to_path over the first n edges: the vertex reached and the
\* directions so far, or a failure.
RECURSIVE path_walk(_, _)
path_walk(p, n) ==
    IF n = 0 THEN [ok |-> TRUE, at |-> p.vertices[1].tag_id, directions |-> <<>>]
    ELSE LET w == path_walk(p, n - 1)
             e == p.edges[n]
         IN  IF ~w.ok THEN w
             ELSE IF e.src = w.at
             THEN [ok |-> TRUE, at |-> e.dst, directions |-> Append(w.directions, Out)]
             ELSE IF e.dst = w.at
             THEN [ok |-> TRUE, at |-> e.src, directions |-> Append(w.directions, In)]
             ELSE [ok |-> FALSE, at |-> w.at, directions |-> w.directions]

\* to_path once the general pattern g and the walk w are at hand.
walked_path(raw, g, w) ==
    IF ~g.ok THEN g
    ELSE IF raw.vertices = <<>>
    THEN [ok |-> FALSE, err |-> "empty path is not allowed"]
    ELSE IF w.ok /\ w.at = raw.vertices[Len(raw.vertices)].tag_id
    THEN [ok |-> TRUE,
          pattern |-> [vertices |-> raw.vertices, edges |-> raw.edges,
                       vertex_rank_map |-> g.pattern.vertex_rank_map,
                       edge_rank_map |-> g.pattern.edge_rank_map,
                       directions |-> w.directions,
                       cards |-> [i \in DOMAIN w.directions |-> ManyToMany]]]
    ELSE [ok |-> FALSE, err |-> "invalid path"]

to_path(raw) == walked_path(raw, to_general(raw), path_walk(raw, Len(raw.edges)))

path_start(path) == path.vertices[1]

path_end(path) == path.vertices[Len(path.vertices)]

path_reverse(path) ==
    to_path(RawPattern(Reverse(path.vertices), Reverse(path.edges))).pattern

same_shape(path, rev) ==
    /\ \A i \in DOMAIN path.vertices :
          path.vertices[i].label_id = rev.vertices[i].label_id
    /\ \A i \in DOMAIN path.edges : path.edges[i].label_id = rev.edges[i].label_id
    /\ path.directions = rev.directions

is_symmetric(path) == same_shape(path, path_reverse(path))

next_vertex_tag_id(raw) ==
    IF raw.vertices = <<>> THEN 0 ELSE (SetMax(VertexTags(raw)) + 1) % TagIdModulus

next_edge_tag_id(raw) ==
    IF raw.edges = <<>> THEN 0 ELSE (SetMax(EdgeTags(raw)) + 1) % TagIdModulus

(***************************************************************************)
(* pattern/mod.rs: the canonical code, a sequence of bytes.                *)
(***************************************************************************)
EDGE_ENCODING_LENGTH == 14

\* BufMut::put_u32 writes big-endian; u32::to_le_bytes is little-endian.
put_u32(x) == <<(x \div 16777216) % 256, (x \div 65536) % 256, (x \div 256) % 256, x % 256>>

to_le_bytes(x) == Reverse(put_u32(x))

put_u8(x) == <<x % 256>>

encode_vertex(vertex_label_id) == to_le_bytes(vertex_label_id)

encode_edge(src_label_id, dst_label_id, edge_label_id) ==
    put_u32(edge_label_id) \o put_u32(src_label_id) \o put_u32(dst_label_id)
    \o (IF src_label_id < dst_label_id THEN put_u8(0) \o put_u8(1)
        ELSE put_u8(1) \o put_u8(0))

encode_normal(p) ==
    LET byRank == [r \in 0..(Len(p.edges) - 1) |->
                      CHOOSE e \in Range(p.edges) : get_edge_rank(p, e.tag_id) = r]
        rec(e) == put_u32(e.label_id) \o put_u32(LabelOf(p, e.src))
                  \o put_u32(LabelOf(p, e.dst))
                  \o put_u8(get_vertex_rank(p, e.src)) \o put_u8(get_vertex_rank(p, e.dst))
    IN  Flatten([i \in 1..Len(p.edges) |-> rec(byRank[i - 1])])

encode(p) ==
    IF Len(p.edges) = 0
    THEN IF p.vertices = <<>> THEN <<>> ELSE encode_vertex(p.vertices[1].label_id)
    ELSE IF Len(p.edges) = 1
    THEN encode_edge(LabelOf(p, p.edges[1].src), LabelOf(p, p.edges[1].dst),
                     p.edges[1].label_id)
    ELSE encode_normal(p)

(***************************************************************************)
(* catalog/duck.rs: DuckCatalog.  The catalog is a record of the metadata  *)
(* (paths, stars, the two label maps, the edge counts), the tables of the  *)
(* connection (a function from table name to its set of rows), the names   *)
(* of the temporary views of the connection, next_table_id and the two     *)
(* statistics lists kept for export.  A table name "path_7" is the pair    *)
(* <<"path", 7>>.  Vectors and matrices of statistics are functions over   *)
(* 0..n-1.                                                                 *)
(***************************************************************************)
EmptyMap == [x \in {} |-> 0]

MapPut(f, k, v) == [x \in (DOMAIN f) \cup {k} |-> IF x = k THEN v ELSE f[x]]

\* LabelId::MAX / 2, the label of the two sentinel tables.
SentinelLabel == LabelIdMax \div 2

add_star_stats(tables, table_name, count, max_degree) ==
    MapPut(tables, table_name,
           {[id |-> i, _mode |-> max_degree[i], _count |-> count[i]] : i \in DOMAIN count})

add_path_stats(tables, table_name, count, start_max_degree, end_max_degree) ==
    MapPut(tables, table_name,
           {[s |-> i, t |-> j, _mode_s |-> start_max_degree[i][j],
             _mode_t |-> end_max_degree[i][j], _count |-> count[i][j]] :
                <<i, j>> \in {x \in (DOMAIN count) \X (DOMAIN count) : count[x[1]][x[2]] # 0}})

DuckCatalog_init ==
    [metadata |-> [paths |-> <<>>, stars |-> <<>>, path_label_map |-> EmptyMap,
                   star_label_map |-> EmptyMap, edge_count_map |-> EmptyMap],
     tables |-> add_path_stats(
                    add_star_stats(EmptyMap, <<"star", SentinelLabel>>, EmptyMap, EmptyMap),
                    <<"path", SentinelLabel>>, EmptyMap, EmptyMap, EmptyMap),
     views |-> {},
     next_table_id |-> 0,
     path_statistics |-> <<>>,
     star_statistics |-> <<>>]

Ok(v) == [ok |-> TRUE, value |-> v]

Err(kind) == [ok |-> FALSE, err |-> kind]

\* add_star: the returned record holds the catalog after the call and the
\* call's result.
add_star(cat, star) ==
    LET empty_stats == \A i \in DOMAIN star.count : star.count[i] = 0
        len == Len(cat.metadata.stars)
        label_id == IF empty_stats THEN (len + SentinelLabel + 1) % (LabelIdMax + 1) ELSE len
        key == <<star.center_rank, encode(star.star)>>
        table_name == <<"star", label_id>>
        md == [cat.metadata EXCEPT
                  !.star_label_map = MapPut(@, key, label_id),
                  !.stars = Append(@, star.star)]
    IN  IF key \in DOMAIN cat.metadata.star_label_map
        THEN [catalog |-> cat, result |-> Err("Catalog")]
        ELSE IF empty_stats
        THEN [catalog |-> [cat EXCEPT !.metadata = md], result |-> Ok(label_id)]
        ELSE IF table_name \in DOMAIN cat.tables
        THEN [catalog |-> [cat EXCEPT !.metadata = md], result |-> Err("DuckDB")]
        ELSE [catalog |-> [cat EXCEPT
                              !.metadata = md,
                              !.tables = add_star_stats(@, table_name, star.count,
                                                        star.max_degree),
                              !.star_statistics = Append(@, star)],
              result |-> Ok(label_id)]

\* add_path with the path pushed before the label map is consulted.
add_path_push_first(cat, stats) ==
    LET key == encode(stats.path)
        len == Len(cat.metadata.paths)
    IN  IF key \in DOMAIN cat.metadata.path_label_map
        THEN [catalog |-> [cat EXCEPT !.metadata.paths = Append(@, stats.path)],
              result |-> Err("Catalog")]
        ELSE [catalog |-> [cat EXCEPT
                              !.metadata.path_label_map = MapPut(@, key, len),
                              !.metadata.paths = Append(@, stats.path)],
              result |-> Ok(len)]

\* add_path with a table of its own for all-zero statistics as well.
add_path_with_table(cat, stats) ==
    LET len == Len(cat.metadata.paths)
        key == encode(stats.path)
        table_name == <<"path", len>>
        md == [cat.metadata EXCEPT
                  !.path_label_map = MapPut(@, key, len),
                  !.paths = Append(@, stats.path)]
    IN  IF key \in DOMAIN cat.metadata.path_label_map
        THEN [catalog |-> cat, result |-> Err("Catalog")]
        ELSE IF table_name \in DOMAIN cat.tables
        THEN [catalog |-> [cat EXCEPT !.metadata = md], result |-> Err("DuckDB")]
        ELSE [catalog |-> [cat EXCEPT
                              !.metadata = md,
                              !.tables = add_path_stats(@, table_name, stats.count,
                                                        stats.start_max_degree,
                                                        stats.end_max_degree),
                              !.path_statistics = Append(@, stats)],
              result |-> Ok(len)]

add_path(cat, stats) ==
    LET empty_stats == \A i \in DOMAIN stats.count :
                           \A j \in DOMAIN stats.count[i] : stats.count[i][j] = 0
        len == Len(cat.metadata.paths)
        label_id == IF empty_stats THEN (len + SentinelLabel + 1) % (LabelIdMax + 1) ELSE len
        key == encode(stats.path)
        table_name == <<"path", label_id>>
        md == [cat.metadata EXCEPT
                  !.path_label_map = MapPut(@, key, label_id),
                  !.paths = Append(@, stats.path)]
    IN  IF key \in DOMAIN cat.metadata.path_label_map
        THEN [catalog |-> cat, result |-> Err("Catalog")]
        ELSE IF empty_stats
        THEN [catalog |-> [cat EXCEPT !.metadata = md], result |-> Ok(label_id)]
        ELSE IF table_name \in DOMAIN cat.tables
        THEN [catalog |-> [cat EXCEPT !.metadata = md], result |-> Err("DuckDB")]
        ELSE [catalog |-> [cat EXCEPT
                              !.metadata = md,
                              !.tables = add_path_stats(@, table_name, stats.count,
                                                        stats.start_max_degree,
                                                        stats.end_max_degree),
                              !.path_statistics = Append(@, stats)],
              result |-> Ok(label_id)]

\* add_edge_count asserts that the label has no count yet.
add_edge_count(cat, edge_label_id, count) ==
    IF edge_label_id \in DOMAIN cat.metadata.edge_count_map
    THEN [catalog |-> [cat EXCEPT !.metadata.edge_count_map[edge_label_id] = count],
          result |-> Err("panic")]
    ELSE [catalog |-> [cat EXCEPT !.metadata.edge_count_map =
                                      MapPut(@, edge_label_id, count)],
          result |-> Ok(0)]

\* The getters of the Catalog trait; an absent entry (None) is NoLabel.
NoLabel == -1

get_path_label_id(cat, c) ==
    IF c \in DOMAIN cat.metadata.path_label_map THEN cat.metadata.path_label_map[c]
    ELSE NoLabel

\* Vec::get(label_id as usize): None when the index is past the end.
get_path(cat, label_id) ==
    IF label_id >= 0 /\ label_id < Len(cat.metadata.paths)
    THEN Ok(cat.metadata.paths[label_id + 1]) ELSE Err("None")

get_star_label_id(cat, rank, c) ==
    IF <<rank, c>> \in DOMAIN cat.metadata.star_label_map
    THEN cat.metadata.star_label_map[<<rank, c>>] ELSE NoLabel

get_star(cat, label_id) ==
    IF label_id >= 0 /\ label_id < Len(cat.metadata.stars)
    THEN Ok(cat.metadata.stars[label_id + 1]) ELSE Err("None")

get_edge_count(cat, label_id) ==
    IF label_id \in DOMAIN cat.metadata.edge_count_map
    THEN Ok(cat.metadata.edge_count_map[label_id]) ELSE Err("None")

(***************************************************************************)
(* catalog/duck.rs: export and import.  The directory holds the database   *)
(* file with the tables of the connection, the metadata as bincode writes  *)
(* it, and the two statistics files.  serde writes a path or a general     *)
(* pattern as the raw pattern of its lists (into = "RawPattern") and       *)
(* reads it back with to_path or to_general (try_from = "RawPattern").     *)
(***************************************************************************)
\* The raw pattern with the vertex list reversed.
into_raw_reversed(p) == RawPattern(Reverse(p.vertices), p.edges)

into_raw(p) == RawPattern(p.vertices, p.edges)

serialize_metadata(md) ==
    [paths |-> [i \in DOMAIN md.paths |-> into_raw(md.paths[i])],
     stars |-> [i \in DOMAIN md.stars |-> into_raw(md.stars[i])],
     path_label_map |-> md.path_label_map,
     star_label_map |-> md.star_label_map,
     edge_count_map |-> md.edge_count_map]

\* The metadata once the patterns have been read back.
read_metadata(bytes, paths, stars) ==
    IF \/ \E i \in DOMAIN paths : ~paths[i].ok
       \/ \E i \in DOMAIN stars : ~stars[i].ok
    THEN Err("Bincode")
    ELSE Ok([paths |-> [i \in DOMAIN paths |-> paths[i].pattern],
             stars |-> [i \in DOMAIN stars |-> stars[i].pattern],
             path_label_map |-> bytes.path_label_map,
             star_label_map |-> bytes.star_label_map,
             edge_count_map |-> bytes.edge_count_map])

deserialize_metadata(bytes) ==
    read_metadata(bytes,
                  [i \in DOMAIN bytes.paths |-> to_path(bytes.paths[i])],
                  [i \in DOMAIN bytes.stars |-> to_general(bytes.stars[i])])

\* export: the files of the directory after the call.
export(cat) ==
    [data |-> cat.tables,
     metadata |-> serialize_metadata(cat.metadata),
     path_stats |-> cat.path_statistics,
     star_stats |-> cat.star_statistics]

\* import once the metadata file has been read: a fresh connection with the
\* tables of the database file, no statistics and the table counter at 0.
imported(files, metadata) ==
    IF ~metadata.ok THEN metadata
    ELSE Ok([metadata |-> metadata.value,
             tables |-> files.data,
             views |-> {},
             next_table_id |-> 0,
             path_statistics |-> <<>>,
             star_statistics |-> <<>>])

\* import: File::open fails when nothing was exported to the directory.
import(d) ==
    IF ~d.some THEN Err("Io")
    ELSE imported(d.value, deserialize_metadata(d.value.metadata))

(***************************************************************************)
(* Pattern layer specification: a raw pattern is drawn from the bounded    *)
(* universe below and encoded; Rename produces the same pattern under new  *)
(* tags and new list orders, Pick an unrelated second pattern.             *)
(***************************************************************************)
MaxPatternVertices == 2

MaxPatternEdges == 4

NumVertexLabels == 2

NumEdgeLabels == 1

TagShift == 3

VertexLabels == 0..(NumVertexLabels - 1)

EdgeLabels == 0..(NumEdgeLabels - 1)

\* Raw patterns over tags 0..n-1 in list order, vertex labels and edges in
\* non-decreasing order (one representative per list order), connected.
EdgeKey(e, n) == (e[1] * n + e[2]) * NumEdgeLabels + e[3]

PatternUniverse ==
    UNION {
        {RawPattern([i \in 1..nv |-> PatternVertex(i - 1, vl[i])],
                    [i \in 1..Len(es) |-> PatternEdge(i - 1, es[i][1], es[i][2], es[i][3])]) :
            <<vl, es>> \in
                {x \in [1..nv -> VertexLabels] \X
                       UNION {[1..ne -> (0..(nv - 1)) \X (0..(nv - 1)) \X EdgeLabels] :
                                ne \in 0..MaxPatternEdges} :
                    /\ \A i \in 1..(nv - 1) : x[1][i] <= x[1][i + 1]
                    /\ \A i \in 1..(Len(x[2]) - 1) :
                          EdgeKey(x[2][i], nv) <= EdgeKey(x[2][i + 1], nv)}} :
        nv \in 1..MaxPatternVertices}

ValidPatterns == {p \in PatternUniverse : is_connected(p)}

\* A tag renaming: the identity, the reversal of 0..n-1, or a shift.
TagRenamings == {"id", "rev", "shift"}

RenameTag(kind, t, n) ==
    CASE kind = "id" -> t
      [] kind = "rev" -> n - 1 - t
      [] kind = "shift" -> (t + TagShift) % TagIdModulus

Renamed(p, vkind, ekind, vperm, eperm) ==
    LET nv == Len(p.vertices)
        ne == Len(p.edges)
        v(i) == p.vertices[vperm[i]]
        e(i) == p.edges[eperm[i]]
    IN  RawPattern(
            [i \in 1..nv |-> PatternVertex(RenameTag(vkind, v(i).tag_id, nv), v(i).label_id)],
            [i \in 1..ne |-> PatternEdge(RenameTag(ekind, e(i).tag_id, ne),
                                         RenameTag(vkind, e(i).src, nv),
                                         RenameTag(vkind, e(i).dst, nv), e(i).label_id)])

EncodeRaw(raw) == encode(to_general(raw).pattern)

\* Brute-force isomorphism: a label-preserving bijection of the vertices under
\* which the two edge multisets agree.
Isomorphic(p, q) ==
    /\ Len(p.vertices) = Len(q.vertices)
    /\ Len(p.edges) = Len(q.edges)
    /\ \E f \in [VertexTags(p) -> VertexTags(q)] :
          /\ \A a, b \in VertexTags(p) : a # b => f[a] # f[b]
          /\ \A a \in VertexTags(p) : LabelOf(p, a) = LabelOf(q, f[a])
          /\ \E g \in [DOMAIN p.edges -> DOMAIN q.edges] :
                /\ \A i, j \in DOMAIN p.edges : i # j => g[i] # g[j]
                /\ \A i \in DOMAIN p.edges :
                      /\ q.edges[g[i]].src = f[p.edges[i].src]
                      /\ q.edges[g[i]].dst = f[p.edges[i].dst]
                      /\ q.edges[g[i]].label_id = p.edges[i].label_id

InitPattern ==
    /\ catalog = "idle" /\ call = "idle" /\ result = "idle" /\ dir = "idle"
    /\ binner = "idle" /\ rerun = "idle"
    /\ bucket_value_lists = "idle" /\ bucket_values_mutex = "idle" /\ pending = "idle" /\ workers = "idle"
    /\ schema = "idle" /\ graph = "idle" /\ bucket_map = "idle" /\ statistics = "idle"
    /\ pattern \in ValidPatterns
    /\ other = pattern
    /\ code = EncodeRaw(pattern)
    /\ otherCode = code
    /\ relation = "none"

Rename ==
    /\ relation = "none"
    /\ \E vkind \in TagRenamings, ekind \in TagRenamings,
          vperm \in Permutations(DOMAIN pattern.vertices),
          eperm \in Permutations(DOMAIN pattern.edges) :
          /\ other' = Renamed(pattern, vkind, ekind, vperm, eperm)
          /\ otherCode' = EncodeRaw(other')
    /\ relation' = "renamed"
    /\ UNCHANGED <<workerVars, binVars, pattern, code, catalogVars, statsVars>>

Pick ==
    /\ relation = "none"
    /\ \E q \in ValidPatterns :
          /\ other' = q
          /\ otherCode' = EncodeRaw(q)
    /\ relation' = "picked"
    /\ UNCHANGED <<workerVars, binVars, pattern, code, catalogVars, statsVars>>

NextPattern == Rename \/ Pick

SpecPattern == InitPattern /\ [][NextPattern]_vars

\* C4: renaming the tags of a connected pattern and reordering its vertex and
\* edge lists leaves the canonical code unchanged.
C4_CodeInvariantUnderRenaming == relation = "renamed" => otherCode = code

\* C5: two connected patterns have the same canonical code only if they are
\* isomorphic.
C5_SameCodeOnlyIfIsomorphic == otherCode = code => Isomorphic(pattern, other)

(***************************************************************************)
(* Catalog specification: from DuckCatalog::init, any sequence of          *)
(* add_path, add_star and add_edge_count calls over a small set of shapes  *)
(* and statistics.                                                         *)
(***************************************************************************)
NumBuckets == 2

MaxCatalogShapes == 2

MaxCatalogPathLength == 1

Buckets == 0..(NumBuckets - 1)

\* The raw path over vertices 0..n of label 0 whose i-th edge (label 0) points
\* forward when dirs[i] is Out and backward when it is In.
RawPathOf(dirs) ==
    RawPattern([i \in 1..(Len(dirs) + 1) |-> PatternVertex(i - 1, 0)],
               [i \in 1..Len(dirs) |->
                   IF dirs[i] = Out THEN PatternEdge(i - 1, i - 1, i, 0)
                   ELSE PatternEdge(i - 1, i, i - 1, 0)])

InputPaths ==
    {to_path(RawPathOf(dirs)).pattern :
        dirs \in UNION {[1..n -> {Out, In}] : n \in 0..MaxCatalogPathLength}}

CountChoices ==
    {[i \in Buckets |-> [j \in Buckets |-> 0]],
     [i \in Buckets |-> [j \in Buckets |-> IF i = j THEN 1 ELSE 0]]}

InputPathStatistics ==
    {[path |-> p, count |-> c, start_max_degree |-> c, end_max_degree |-> c] :
        p \in {q \in InputPaths : Len(q.edges) >= 1}, c \in CountChoices}

InputStarStatistics ==
    {[star |-> to_general(into_raw(x[1])).pattern, center_rank |-> x[2],
      count |-> x[3][0], max_degree |-> x[3][0]] :
        x \in {y \in {q \in InputPaths : Len(q.edges) <= 1} \X (0..1) \X CountChoices :
                  y[2] < Len(y[1].vertices)}}

None == [some |-> FALSE]

Some(x) == [some |-> TRUE, value |-> x]

Idle == "idle"

Aborted == ~result.ok /\ result.err = "panic"

InitCatalog ==
    /\ catalog = DuckCatalog_init
    /\ dir = None
    /\ binner = Idle /\ rerun = Idle
    /\ bucket_value_lists = Idle /\ bucket_values_mutex = Idle /\ pending = Idle /\ workers = Idle
    /\ call = [op |-> "init"]
    /\ result = Ok(0)
    /\ pattern = Idle /\ other = Idle /\ code = Idle /\ otherCode = Idle /\ relation = Idle
    /\ schema = Idle /\ graph = Idle /\ bucket_map = Idle /\ statistics = Idle

AddPath ==
    /\ ~Aborted
    /\ Len(catalog.metadata.paths) + Len(catalog.metadata.stars) < MaxCatalogShapes
    /\ \E stats \in InputPathStatistics :
          /\ call' = [op |-> "add_path", stats |-> stats]
          /\ catalog' = add_path(catalog, stats).catalog
          /\ result' = add_path(catalog, stats).result
    /\ UNCHANGED <<workerVars, binVars, dir, patternVars, statsVars>>

AddStar ==
    /\ ~Aborted
    /\ Len(catalog.metadata.paths) + Len(catalog.metadata.stars) < MaxCatalogShapes
    /\ \E star \in InputStarStatistics :
          /\ call' = [op |-> "add_star", stats |-> star]
          /\ catalog' = add_star(catalog, star).catalog
          /\ result' = add_star(catalog, star).result
    /\ UNCHANGED <<workerVars, binVars, dir, patternVars, statsVars>>

AddEdgeCount ==
    /\ ~Aborted
    /\ Len(catalog.metadata.paths) + Len(catalog.metadata.stars) < MaxCatalogShapes
    /\ \E count \in 0..1 :
          /\ call' = [op |-> "add_edge_count", label_id |-> 0, count |-> count]
          /\ catalog' = add_edge_count(catalog, 0, count).catalog
          /\ result' = add_edge_count(catalog, 0, count).result
    /\ UNCHANGED <<workerVars, binVars, dir, patternVars, statsVars>>

\* catalog.export(dir)
Export ==
    /\ ~Aborted
    /\ call' = [op |-> "export"]
    /\ dir' = Some(export(catalog))
    /\ result' = Ok(0)
    /\ UNCHANGED <<workerVars, binVars, catalog, patternVars, statsVars>>

\* The catalog in use becomes DuckCatalog::import(dir); a failed import
\* leaves the one in use.
Import ==
    /\ ~Aborted
    /\ call' = [op |-> "import"]
    /\ catalog' = IF import(dir).ok THEN import(dir).value ELSE catalog
    /\ result' = IF import(dir).ok THEN Ok(0) ELSE import(dir)
    /\ UNCHANGED <<workerVars, binVars, dir, patternVars, statsVars>>

NextCatalog == AddPath \/ AddStar \/ AddEdgeCount \/ Export \/ Import

SpecCatalog == InitCatalog /\ [][NextCatalog]_vars

\* The key under which the call in flight is filed.
IsDuplicate(cl, cat) ==
    \/ cl.op = "add_path" /\ encode(cl.stats.path) \in DOMAIN cat.metadata.path_label_map
    \/ /\ cl.op = "add_star"
       /\ <<cl.stats.center_rank, encode(cl.stats.star)>> \in DOMAIN cat.metadata.star_label_map

\* C3: add_path or add_star with a key the label map already holds returns a
\* CatalogError and leaves the path list, the star list and both label maps
\* unchanged.
C3_DuplicateAddRejected ==
    [][IsDuplicate(call', catalog) =>
          /\ result' = Err("Catalog")
          /\ catalog'.metadata.paths = catalog.metadata.paths
          /\ catalog'.metadata.stars = catalog.metadata.stars
          /\ catalog'.metadata.path_label_map = catalog.metadata.path_label_map
          /\ catalog'.metadata.star_label_map = catalog.metadata.star_label_map]_vars

C3_Witness ==
    /\ call.op \in {"add_path", "add_star"}
    /\ result = Err("Catalog")
    /\ Len(catalog.metadata.paths) + Len(catalog.metadata.stars) >= 1

(***************************************************************************)
(* schema/mod.rs, graph/mod.rs, graph/csr.rs.  The schema lists its        *)
(* vertex labels and its edges (label, from, to).  A graph holds, per      *)
(* vertex label, the list of vertex ids (the internal id of a vertex is    *)
(* its position in the list, counted from 0) and, per edge label, the      *)
(* forward and backward halves of the CSR: the sorted lists of             *)
(* (internal id, neighbour id).  Parallel edges are kept.                  *)
(***************************************************************************)
SchemaVertex(label) == [label |-> label]

SchemaEdge(label, from, to) == [label |-> label, from |-> from, to |-> to]

schema_outgoing_edges(sch, vertex_label_id) ==
    SelectSeq(sch.edges, LAMBDA e : e.from = vertex_label_id)

schema_incoming_edges(sch, vertex_label_id) ==
    SelectSeq(sch.edges, LAMBDA e : e.to = vertex_label_id)

\* Lexicographic order of pairs, as par_sort_unstable orders (u32, usize).
PairLeq(a, b) == a[1] < b[1] \/ (a[1] = b[1] /\ a[2] <= b[2])

RECURSIVE SortPairs(_)
SortPairs(s) ==
    IF Len(s) <= 1 THEN s
    ELSE LET rest == SortPairs(Tail(s))
             x == Head(s)
             k == Cardinality({i \in DOMAIN rest : ~PairLeq(x, rest[i])})
         IN  SubSeq(rest, 1, k) \o <<x>> \o SubSeq(rest, k + 1, Len(rest))

\* BiHashMap vertex id <-> internal id of one vertex label.
get_internal_vertex_map(g, label_id) ==
    [v \in Range(g.vertices[label_id]) |->
        (CHOOSE i \in DOMAIN g.vertices[label_id] : g.vertices[label_id][i] = v) - 1]

get_by_right(g, label_id, internal_id) == g.vertices[label_id][internal_id + 1]

build_bidirectional_csr(edges, src_vertex_map, dst_vertex_map) ==
    [forward  |-> SortPairs([i \in DOMAIN edges |->
                                <<src_vertex_map[edges[i][1]], edges[i][2]>>]),
     backward |-> SortPairs([i \in DOMAIN edges |->
                                <<dst_vertex_map[edges[i][2]], edges[i][1]>>])]

\* LabeledGraphBuilder::build over the vertex lists and the edge lists of the
\* builder; edge_label_to_vertex_label comes from the schema.
LabeledGraphBuilder_build(sch, vertices, edges) ==
    LET g0 == [vertices |-> vertices]
    IN  [vertices |-> vertices,
         csr |-> [l \in DOMAIN edges |->
                     LET se == CHOOSE e \in Range(sch.edges) : e.label = l
                     IN  build_bidirectional_csr(edges[l],
                             get_internal_vertex_map(g0, se.from),
                             get_internal_vertex_map(g0, se.to))]]

get_num_edges(g, label_id) == Len(g.csr[label_id].forward)

csr_neighbors(half, internal_id) ==
    LET es == SelectSeq(half, LAMBDA e : e[1] = internal_id)
    IN  [i \in DOMAIN es |-> es[i][2]]

neighbors(g, vertex_id, vertex_label_id, edge_label_id, direction) ==
    LET internal_id == get_internal_vertex_map(g, vertex_label_id)[vertex_id]
    IN  IF direction = Out
        THEN csr_neighbors(g.csr[edge_label_id].forward, internal_id)
        ELSE csr_neighbors(g.csr[edge_label_id].backward, internal_id)

(***************************************************************************)
(* schema/path_v2.rs: the path tree.  nodes[id + 1] is the node with that  *)
(* id; a node holds its path and the ids of its children.                  *)
(***************************************************************************)
PathTreeNode(id, path) == [id |-> id, path |-> path, children |-> <<>>]

\* The paths that extend path by one schema edge at its end: first along the
\* outgoing schema edges of the end's label, then along the incoming ones.
path_extension(path, nv, ne, label, neighbor_label, direction) ==
    to_path(RawPattern(
                Append(path.vertices, PatternVertex(nv, neighbor_label)),
                Append(path.edges,
                       IF direction = Out
                       THEN PatternEdge(ne, path_end(path).tag_id, nv, label)
                       ELSE PatternEdge(ne, nv, path_end(path).tag_id, label)))).pattern

path_extensions(sch, path) ==
    LET outs == schema_outgoing_edges(sch, path_end(path).label_id)
        ins == schema_incoming_edges(sch, path_end(path).label_id)
        steps == [i \in DOMAIN outs |->
                     [label |-> outs[i].label, neighbor |-> outs[i].to, direction |-> Out]]
                 \o [i \in DOMAIN ins |->
                        [label |-> ins[i].label, neighbor |-> ins[i].from, direction |-> In]]
    IN  [i \in DOMAIN steps |->
            path_extension(path, next_vertex_tag_id(path), next_edge_tag_id(path),
                           steps[i].label, steps[i].neighbor, steps[i].direction)]

RECURSIVE generate_path_tree_from_path_end_recursive(_, _, _, _, _)
RECURSIVE extend_path_tree(_, _, _, _, _)
\* The loop over the extensions exts of the node root.
extend_path_tree(sch, exts, max_depth, nodes, root) ==
    IF exts = <<>> THEN nodes
    ELSE LET new_path == Head(exts)
             next_node_id == Len(nodes)
             pushed == Append([nodes EXCEPT ![root + 1].children =
                                  Append(@, next_node_id)],
                              PathTreeNode(next_node_id, new_path))
             below == generate_path_tree_from_path_end_recursive(
                          sch, new_path, max_depth - 1, pushed, next_node_id)
         IN  extend_path_tree(sch, Tail(exts), max_depth, below, root)

generate_path_tree_from_path_end_recursive(sch, path, max_depth, nodes, root) ==
    IF max_depth = 0 THEN nodes
    ELSE extend_path_tree(sch, path_extensions(sch, path), max_depth, nodes, root)

generate_path_tree_from_path_end(sch, path, max_depth) ==
    generate_path_tree_from_path_end_recursive(
        sch, path, max_depth, <<PathTreeNode(0, path)>>, 0)

(***************************************************************************)
(* statistics.rs: StatisticsAnalyzer, path statistics.  The analyzer is    *)
(* the record of its graph, schema, bucket_map, buckets and             *)
(* max_path_length.  A CountVec is a function over 0..n-1; a count matrix  *)
(* maps the internal id of a vertex to a CountVec over the buckets.        *)
(***************************************************************************)
get_or_insert_with(opt, v) == IF opt.some THEN opt ELSE Some(v)

CountVec_zeroed(n) == [i \in 0..(n - 1) |-> 0]

RECURSIVE SumVecs(_, _)
SumVecs(vecs, n) ==
    IF vecs = <<>> THEN CountVec_zeroed(n)
    ELSE LET rest == SumVecs(Tail(vecs), n)
         IN  [i \in 0..(n - 1) |-> Head(vecs)[i] + rest[i]]

RECURSIVE MaxVecs(_, _)
MaxVecs(vecs, n) ==
    IF vecs = <<>> THEN CountVec_zeroed(n)
    ELSE LET rest == MaxVecs(Tail(vecs), n)
         IN  [i \in 0..(n - 1) |-> IF Head(vecs)[i] > rest[i] THEN Head(vecs)[i] ELSE rest[i]]

\* A transposition that leaves the matrix as it is.
transpose_identity(m) == m

transpose(m) == [i \in DOMAIN m |-> [j \in DOMAIN m |-> m[j][i]]]

RECURSIVE SortedSeq(_)
SortedSeq(S) == IF S = {} THEN <<>> ELSE <<SetMin(S)>> \o SortedSeq(S \ {SetMin(S)})

\* The lists are filled by parallel workers, so the order inside a list is
\* not fixed; every reader of the lists sums or maximises over them.
compute_bucket_values_for_label(an, vertex_label) ==
    [b \in 0..(an.buckets - 1) |->
        SelectSeq(SortedSeq(DOMAIN an.bucket_map[vertex_label]),
                  LAMBDA v : an.bucket_map[vertex_label][v] = b)]

SingleVertexPath(label) == to_path(RawPattern(<<PatternVertex(0, label)>>, <<>>)).pattern

children_of(nodes, id) == [i \in DOMAIN nodes[id + 1].children |->
                              nodes[nodes[id + 1].children[i] + 1]]

\* The work-list loop of init_path_statistics: pop the last node, keep the
\* entry of its code if there is one, push its children.
RECURSIVE init_path_statistics_loop(_, _, _)
init_path_statistics_loop(nodes, queue, results) ==
    IF queue = <<>> THEN results
    ELSE LET node == queue[Len(queue)]
             c == encode(node.path)
             inserted == IF c \in DOMAIN results THEN results
                         ELSE MapPut(results, c,
                                     [path |-> node.path, count |-> None,
                                      start_max_degree |-> None, end_max_degree |-> None])
         IN  init_path_statistics_loop(
                 nodes, SubSeq(queue, 1, Len(queue) - 1) \o children_of(nodes, node.id),
                 inserted)

RECURSIVE init_path_statistics_from(_, _, _)
init_path_statistics_from(an, vs, results) ==
    IF vs = <<>> THEN results
    ELSE LET tree == generate_path_tree_from_path_end(
                         an.schema, SingleVertexPath(Head(vs).label), an.max_path_length)
         IN  init_path_statistics_from(
                 an, Tail(vs), init_path_statistics_loop(tree, children_of(tree, 0), results))

init_path_statistics(an) == init_path_statistics_from(an, an.schema.vertices, EmptyMap)

init_path_count_matrix(an, len) == [i \in 0..(len - 1) |-> CountVec_zeroed(an.buckets)]

init_path_count_matrix_for_vertex(an, vertex_label) ==
    [internal_id \in 0..(Len(an.graph.vertices[vertex_label]) - 1) |->
        [b \in 0..(an.buckets - 1) |->
            IF an.bucket_map[vertex_label][get_by_right(an.graph, vertex_label, internal_id)] = b
            THEN 1 ELSE 0]]

summarize_count(an, count_matrix, vertex_map, bucket_values) ==
    [b \in DOMAIN bucket_values |->
        SumVecs([i \in DOMAIN bucket_values[b] |->
                    count_matrix[vertex_map[bucket_values[b][i]]]], an.buckets)]

\* The largest row entries over the vertices of all the buckets.
summarize_max_degree_any_bucket(an, count_matrix, vertex_map, bucket_values) ==
    [b \in DOMAIN bucket_values |->
        MaxVecs([i \in DOMAIN SortedSeq(DOMAIN vertex_map) |->
                    count_matrix[vertex_map[SortedSeq(DOMAIN vertex_map)[i]]]], an.buckets)]

summarize_max_degree(an, count_matrix, vertex_map, bucket_values) ==
    [b \in DOMAIN bucket_values |->
        MaxVecs([i \in DOMAIN bucket_values[b] |->
                    count_matrix[vertex_map[bucket_values[b][i]]]], an.buckets)]

RECURSIVE compute_path_statistics_recursive(_, _, _, _, _, _, _)
RECURSIVE compute_path_statistics_children(_, _, _, _, _, _, _)
\* The loop over the children of a node; parent_label is the label whose
\* vertex map the parent's count matrix is indexed by.
compute_path_statistics_children(an, nodes, children, parent_label, parent_count_matrix, parent_vertex_tag_id, results) ==
    IF children = <<>> THEN results
    ELSE compute_path_statistics_children(
             an, nodes, Tail(children), parent_label, parent_count_matrix,
             parent_vertex_tag_id,
             compute_path_statistics_recursive(
                 an, nodes, Head(children), parent_label, parent_count_matrix,
                 parent_vertex_tag_id, results))

compute_path_statistics_recursive(an, nodes, node, parent_label, parent_count_matrix, parent_vertex_tag_id, results) ==
    LET path == node.path
        edge == get_edge(path, SetMax(EdgeTags(path)))
        vertex == get_vertex(path, SetMax(VertexTags(path)))
        vertex_map == get_internal_vertex_map(an.graph, vertex.label_id)
        parent_vertex_map == get_internal_vertex_map(an.graph, parent_label)
        \* the new edge touches the parent's vertex: the third branch is unreachable
        direction == IF edge.src = parent_vertex_tag_id THEN In ELSE Out
        count_matrix ==
            [internal_id \in 0..(Len(an.graph.vertices[vertex.label_id]) - 1) |->
                LET nbrs == neighbors(an.graph,
                                get_by_right(an.graph, vertex.label_id, internal_id),
                                vertex.label_id, edge.label_id, direction)
                IN  SumVecs([i \in DOMAIN nbrs |->
                                parent_count_matrix[parent_vertex_map[nbrs[i]]]],
                            an.buckets)]
        local_bucket_values == compute_bucket_values_for_label(an, vertex.label_id)
        c == encode(path)
        st == results[c]
        vertex_rank == get_vertex_rank(path, vertex.tag_id)
        path_vertex == get_vertex_from_rank(st.path, vertex_rank)
        updated ==
            IF path_vertex = path_start(st.path)
            THEN [st EXCEPT
                    !.count = get_or_insert_with(@,
                        summarize_count(an, count_matrix, vertex_map, local_bucket_values)),
                    !.start_max_degree = get_or_insert_with(@,
                        summarize_max_degree(an, count_matrix, vertex_map,
                                             local_bucket_values))]
            ELSE [st EXCEPT
                    !.count = get_or_insert_with(@,
                        transpose(summarize_count(an, count_matrix, vertex_map,
                                                  local_bucket_values))),
                    !.end_max_degree = get_or_insert_with(@,
                        transpose(summarize_max_degree(an, count_matrix, vertex_map,
                                                       local_bucket_values)))]
    IN  compute_path_statistics_children(
            an, nodes, children_of(nodes, node.id), vertex.label_id, count_matrix,
            vertex.tag_id, [results EXCEPT ![c] = updated])

RECURSIVE compute_path_statistics_from(_, _, _)
compute_path_statistics_from(an, vs, results) ==
    IF vs = <<>> THEN results
    ELSE LET tree == generate_path_tree_from_path_end(
                         an.schema, SingleVertexPath(Head(vs).label), an.max_path_length)
         IN  compute_path_statistics_from(
                 an, Tail(vs),
                 compute_path_statistics_children(
                     an, tree, children_of(tree, 0), Head(vs).label,
                     init_path_count_matrix_for_vertex(an, Head(vs).label), 0, results))

\* The validation loop and the conversion that end compute_path_statistics:
\* a panic when one of the two assertions fails, else the map from canonical
\* code to PathStatistics.
validate_path_statistics(results) ==
    IF \E c \in DOMAIN results : ~results[c].count.some \/ ~results[c].end_max_degree.some
    THEN Err("panic")
    ELSE Ok([c \in DOMAIN results |->
                [path |-> results[c].path,
                 count |-> results[c].count.value,
                 start_max_degree |->
                     IF results[c].start_max_degree.some
                     THEN results[c].start_max_degree.value
                     ELSE results[c].end_max_degree.value,
                 end_max_degree |-> results[c].end_max_degree.value]])

compute_path_statistics(an) ==
    validate_path_statistics(
        compute_path_statistics_from(an, an.schema.vertices, init_path_statistics(an)))

(***************************************************************************)
(* counter.rs: PathCounter::count, the exact number of matches of a path.  *)
(***************************************************************************)
RECURSIVE SumSeq(_)
SumSeq(s) == IF s = <<>> THEN 0 ELSE Head(s) + SumSeq(Tail(s))

count_edge(g, vertex_label_id, edge_label_id, neighbor_label_id, direction, count_vec) ==
    LET neighbor_vertex_map == get_internal_vertex_map(g, neighbor_label_id)
    IN  [internal_id \in 0..(Len(g.vertices[vertex_label_id]) - 1) |->
            LET nbrs == neighbors(g, get_by_right(g, vertex_label_id, internal_id),
                                  vertex_label_id, edge_label_id, direction)
            IN  SumSeq([i \in DOMAIN nbrs |-> count_vec[neighbor_vertex_map[nbrs[i]]]])]

RECURSIVE PathCounter_count_vec(_, _, _)
\* The count vector after the first n edges of the path.
PathCounter_count_vec(g, path, n) ==
    IF n = 0
    THEN [i \in 0..(Len(g.vertices[path_start(path).label_id]) - 1) |-> 1]
    ELSE LET e == path.edges[n]
             d == path.directions[n]
             source_tag_id == IF d = Out THEN e.dst ELSE e.src
             neighbor_tag_id == IF d = Out THEN e.src ELSE e.dst
             direction == IF d = Out THEN In ELSE Out
         IN  count_edge(g, LabelOf(path, source_tag_id), e.label_id,
                        LabelOf(path, neighbor_tag_id), direction,
                        PathCounter_count_vec(g, path, n - 1))

PathCounter_count(g, path) ==
    LET cv == PathCounter_count_vec(g, path, Len(path.edges))
    IN  SumSeq([i \in 1..Cardinality(DOMAIN cv) |-> cv[i - 1]])

(***************************************************************************)
(* The path statistics of a graph.  The graph is any multigraph of the     *)
(* schema over NumGraphVertices vertices with at most MaxGraphEdges edges, *)
(* and the bucket map is any map of the vertices to the buckets.           *)
(***************************************************************************)
NumGraphVertices == 3

MaxGraphEdges == 3

MaxPathLength == 2

MaxStarLength == 1

MaxStarDegree == 2

\* One vertex label with an edge label from it to itself, and two vertex
\* labels with an edge label from the first to the second.
LoopSchema == [vertices |-> <<SchemaVertex(0)>>, edges |-> <<SchemaEdge(0, 0, 0)>>]

TwoLabelSchema ==
    [vertices |-> <<SchemaVertex(0), SchemaVertex(1)>>, edges |-> <<SchemaEdge(0, 0, 1)>>]

InputSchemas == {LoopSchema, TwoLabelSchema}

SchemaVertexLabels(sch) == {v.label : v \in Range(sch.vertices)}

SchemaEdgeLabels(sch) == {e.label : e \in Range(sch.edges)}

\* The vertex ids of a label: NumGraphVertices vertices in all, shared out
\* evenly, the ids of different labels overlapping.
GraphVertexIds(sch, l) ==
    [i \in 1..(NumGraphVertices - Len(sch.vertices) + 1) |-> l + i]

AllVertexIds == 1..(NumGraphVertices + 1)

\* The edge lists handed to the builder, one per multiset of edges.
InputEdgeLists(sch, l) ==
    LET se == CHOOSE e \in Range(sch.edges) : e.label = l
        pairs == Range(GraphVertexIds(sch, se.from)) \X Range(GraphVertexIds(sch, se.to))
    IN  {s \in UNION {[1..n -> pairs] : n \in 0..MaxGraphEdges} :
            \A i \in 1..(Len(s) - 1) : PairLeq(s[i], s[i + 1])}

InputGraphs(sch) ==
    {LabeledGraphBuilder_build(sch, [l \in SchemaVertexLabels(sch) |-> GraphVertexIds(sch, l)], es) :
        es \in [SchemaEdgeLabels(sch) -> InputEdgeLists(sch, 0)]}

InputBucketMaps(sch) ==
    {bm \in [SchemaVertexLabels(sch) -> UNION {[Range(GraphVertexIds(sch, l)) -> Buckets] :
                                                 l \in SchemaVertexLabels(sch)}] :
        \A l \in SchemaVertexLabels(sch) : DOMAIN bm[l] = Range(GraphVertexIds(sch, l))}

StatisticsAnalyzer_new(g, sch, bm, buckets, max_path_length, max_star_length, max_star_degree) ==
    [graph |-> g, schema |-> sch, bucket_map |-> bm, buckets |-> buckets,
     max_path_length |-> max_path_length, max_star_length |-> max_star_length,
     max_star_degree |-> max_star_degree]

InitStats ==
    /\ schema \in InputSchemas
    /\ graph \in InputGraphs(schema)
    /\ bucket_map \in InputBucketMaps(schema)
    /\ statistics = None
    /\ pattern = Idle /\ other = Idle /\ code = Idle /\ otherCode = Idle /\ relation = Idle
    /\ catalog = Idle /\ call = Idle /\ result = Idle /\ dir = Idle
    /\ binner = Idle /\ rerun = Idle
    /\ bucket_value_lists = Idle /\ bucket_values_mutex = Idle /\ pending = Idle /\ workers = Idle

\* StatisticsAnalyzer::new(..).compute_path_statistics()
ComputePathStatistics ==
    /\ ~statistics.some
    /\ statistics' = Some(compute_path_statistics(
                              StatisticsAnalyzer_new(graph, schema, bucket_map, NumBuckets,
                                                     MaxPathLength, MaxStarLength,
                                                     MaxStarDegree)))
    /\ UNCHANGED <<workerVars, binVars, schema, graph, bucket_map, patternVars, catalogVars>>

\* A new bucket map for the same graph: the analyzer is built anew.
Rebucket ==
    /\ statistics.some
    /\ bucket_map' \in InputBucketMaps(schema) \ {bucket_map}
    /\ statistics' = None
    /\ UNCHANGED <<workerVars, binVars, schema, graph, patternVars, catalogVars>>

NextStats == ComputePathStatistics \/ Rebucket

SpecStats == InitStats /\ [][NextStats]_vars

\* The matches of a path in the graph: an image for every vertex of the path
\* and an edge of the graph (its position in the forward list) for every
\* edge of the path, the endpoints agreeing.
Matches(g, path) ==
    LET ids(l) == Range(g.vertices[l])
        fw(l) == g.csr[l].forward
    IN  {m \in [vs : [DOMAIN path.vertices -> AllVertexIds],
                es : [DOMAIN path.edges -> 1..MaxGraphEdges]] :
            /\ \A i \in DOMAIN path.vertices : m.vs[i] \in ids(path.vertices[i].label_id)
            /\ \A j \in DOMAIN path.edges :
                  LET e == path.edges[j]
                  IN  /\ m.es[j] \in DOMAIN fw(e.label_id)
                      /\ fw(e.label_id)[m.es[j]] =
                            <<get_internal_vertex_map(g, LabelOf(path, e.src))[
                                  m.vs[VertexPos(path, e.src)]],
                              m.vs[VertexPos(path, e.dst)]>>}

StartOf(path, m) == m.vs[1]

EndOf(path, m) == m.vs[Len(path.vertices)]

BucketOf(label, v) == bucket_map[label][v]

MatchesBetween(path, s, t) ==
    {m \in Matches(graph, path) :
        /\ BucketOf(path_start(path).label_id, StartOf(path, m)) = s
        /\ BucketOf(path_end(path).label_id, EndOf(path, m)) = t}

SumCells(mat) ==
    SumSeq([i \in 1..NumBuckets |-> SumSeq([j \in 1..NumBuckets |-> mat[i - 1][j - 1]])])

\* C6: every cell count[s][t] of every computed path statistic is the number
\* of matches of the path whose start lies in bucket s and whose end lies in
\* bucket t, and the cells add up to the exact count of the path.
C6_CountCellsExact ==
    statistics.some =>
        /\ statistics.value.ok
        /\ \A c \in DOMAIN statistics.value.value :
              LET st == statistics.value.value[c]
              IN  /\ \A s, t \in Buckets :
                        st.count[s][t] = Cardinality(MatchesBetween(st.path, s, t))
                  /\ SumCells(st.count) = PathCounter_count(graph, st.path)

C6_Witness ==
    /\ statistics.some /\ statistics.value.ok
    /\ \E c \in DOMAIN statistics.value.value :
          /\ Len(statistics.value.value[c].path.edges) = 2
          /\ statistics.value.value[c].count[0][1] = 2
          /\ statistics.value.value[c].count[1][0] = 0

MaxOver(S) == IF S = {} THEN 0 ELSE SetMax(S)

VerticesInBucket(label, b) == {v \in Range(graph.vertices[label]) : BucketOf(label, v) = b}

\* C7: start_max_degree[s][t] is the largest number of matches that one start
\* vertex of bucket s has with an end in bucket t, and end_max_degree[s][t]
\* the largest number of matches that one end vertex of bucket t has with a
\* start in bucket s, for every computed path, the symmetric ones included.
C7_MaxDegreesExact ==
    statistics.some =>
        /\ statistics.value.ok
        /\ \A c \in DOMAIN statistics.value.value :
              LET st == statistics.value.value[c]
                  ms == Matches(graph, st.path)
                  sl == path_start(st.path).label_id
                  el == path_end(st.path).label_id
              IN  \A s, t \in Buckets :
                     /\ st.start_max_degree[s][t] =
                           MaxOver({Cardinality({m \in ms : /\ StartOf(st.path, m) = u
                                                            /\ BucketOf(el, EndOf(st.path, m)) = t}) :
                                       u \in VerticesInBucket(sl, s)})
                     /\ st.end_max_degree[s][t] =
                           MaxOver({Cardinality({m \in ms : /\ EndOf(st.path, m) = w
                                                            /\ BucketOf(sl, StartOf(st.path, m)) = s}) :
                                       w \in VerticesInBucket(el, t)})

(***************************************************************************)
(* schema/path.rs: generate_paths_from_vertex; statistics.rs: the star     *)
(* state and the star statistics.  A map of the program that is a HashMap  *)
(* is walked here in the order of its keys.  The star state is one map     *)
(* from <<label, rank, code>> to the path and its count vector; ok turns   *)
(* FALSE when an unwrap of the code fails.                                 *)
(***************************************************************************)
RECURSIVE CmpBytes(_, _)
\* The order of Vec<u8>.
CmpBytes(a, b) ==
    IF a = <<>> THEN (IF b = <<>> THEN 0 ELSE -1)
    ELSE IF b = <<>> THEN 1
    ELSE IF Head(a) # Head(b) THEN CmpInt(Head(a), Head(b))
    ELSE CmpBytes(Tail(a), Tail(b))

RECURSIVE CmpKey(_, _)
CmpKey(a, b) ==
    IF Len(a) = 1 THEN CmpBytes(a[1], b[1])
    ELSE IF a[1] # b[1] THEN CmpInt(a[1], b[1])
    ELSE CmpKey(Tail(a), Tail(b))

RECURSIVE SortedKeys(_)
\* The keys of a BTreeMap in ascending order; a key is a tuple of integers
\* that ends with a code.
SortedKeys(S) ==
    IF S = {} THEN <<>>
    ELSE LET m == CHOOSE x \in S : \A y \in S : CmpKey(x, y) <= 0
         IN  <<m>> \o SortedKeys(S \ {m})

into_values(map) == LET ks == SortedKeys(DOMAIN map) IN [i \in DOMAIN ks |-> map[ks[i]]]

RECURSIVE generate_paths_from_vertex_inner(_, _, _, _)
generate_paths_from_vertex_inner(sch, queue, length, paths) ==
    IF queue = <<>> THEN paths
    ELSE LET path == Head(queue)
             key == <<encode(path)>>
         IN  IF Len(path.edges) = length
             THEN generate_paths_from_vertex_inner(
                      sch, Tail(queue), length,
                      IF key \in DOMAIN paths THEN paths ELSE MapPut(paths, key, path))
             ELSE generate_paths_from_vertex_inner(
                      sch, Tail(queue) \o path_extensions(sch, path), length, paths)

generate_paths_from_vertex(sch, vertex_label, length) ==
    into_values(generate_paths_from_vertex_inner(
                    sch, <<SingleVertexPath(vertex_label)>>, length, EmptyMap))

into_general(path) ==
    [vertices |-> path.vertices, edges |-> path.edges,
     vertex_rank_map |-> path.vertex_rank_map, edge_rank_map |-> path.edge_rank_map]

\* pattern/path.rs: merge_paths_to_star, the paths after the first one.
RECURSIVE merge_paths_loop(_, _, _)
merge_paths_loop(raw, first_start, paths) ==
    IF paths = <<>> THEN raw
    ELSE LET path == Head(paths)
             start == path_start(path)
             vertex_offset == next_vertex_tag_id(raw)
             edge_offset == next_edge_tag_id(raw)
             tag(t) == IF t # start.tag_id THEN t + vertex_offset ELSE first_start.tag_id
             vs == SelectSeq(path.vertices, LAMBDA v : v.tag_id # start.tag_id)
         IN  merge_paths_loop(
                 RawPattern(
                     raw.vertices \o [i \in DOMAIN vs |->
                         PatternVertex(vs[i].tag_id + vertex_offset, vs[i].label_id)],
                     raw.edges \o [i \in DOMAIN path.edges |->
                         PatternEdge(path.edges[i].tag_id + edge_offset,
                                     tag(path.edges[i].src), tag(path.edges[i].dst),
                                     path.edges[i].label_id)]),
                 first_start, Tail(paths))

star_with_center(star, center) ==
    [star |-> star, center_rank |-> get_vertex_rank(star, center.tag_id)]

merge_paths_to_star(paths) ==
    star_with_center(
        to_general(merge_paths_loop(RawPattern(Head(paths).vertices, Head(paths).edges),
                                    path_start(Head(paths)), Tail(paths))).pattern,
        path_start(Head(paths)))

summarize_count_for_vec(count_vec, vertex_map, bucket_values) ==
    [b \in DOMAIN bucket_values |->
        SumSeq([i \in DOMAIN bucket_values[b] |-> count_vec[vertex_map[bucket_values[b][i]]]])]

summarize_max_degree_for_vec(count_vec, vertex_map, bucket_values) ==
    [b \in DOMAIN bucket_values |->
        MaxOver({count_vec[vertex_map[bucket_values[b][i]]] : i \in DOMAIN bucket_values[b]})]

\* The suffixes of update_star_state_inner: the paths from start_label and
\* the reverses of those whose two ends carry the same label.
with_reverses(suffixes, symmetric) ==
    suffixes \o [i \in DOMAIN symmetric |-> path_reverse(symmetric[i])]

with_symmetric(suffixes) ==
    with_reverses(suffixes,
                  SelectSeq(suffixes,
                            LAMBDA s : path_start(s).label_id = path_end(s).label_id))

star_suffixes(sch, start_label, length) ==
    with_symmetric(generate_paths_from_vertex(sch, start_label, length))

\* HashMap::entry(key).or_insert(value)
or_insert(map, key, value) == IF key \in DOMAIN map THEN map ELSE MapPut(map, key, value)

save_star_path(state, source_label, nv, count_vec, path) ==
    [state EXCEPT !.map = or_insert(@, <<source_label, get_vertex_rank(path, nv), encode(path)>>,
                                    [path |-> path, count_vec |-> count_vec])]

\* The tail of the loop body: the suffix with the new vertex and the new edge
\* pushed at its front, saved under the rank of the new vertex.
save_star_state(state, source_label, suffix, nv, new_edge, count_vec) ==
    save_star_path(state, source_label, nv, count_vec,
                   to_path(RawPattern(<<PatternVertex(nv, source_label)>> \o suffix.vertices,
                                      <<new_edge>> \o suffix.edges)).pattern)

\* The body of the loop over the suffixes.
update_star_state_suffix(an, source_label, e, direction, suffix, state) ==
    LET start == path_start(suffix)
        key == <<start.label_id, get_vertex_rank(suffix, start.tag_id), encode(suffix)>>
        nv == next_vertex_tag_id(suffix)
        ne == next_edge_tag_id(suffix)
    IN  IF ~state.ok \/ key \notin DOMAIN state.map THEN [ok |-> FALSE, map |-> state.map]
        ELSE save_star_state(
                 state, source_label, suffix, nv,
                 IF direction = Out THEN PatternEdge(ne, nv, start.tag_id, e.label)
                 ELSE PatternEdge(ne, start.tag_id, nv, e.label),
                 [internal_id \in 0..(Len(an.graph.vertices[source_label]) - 1) |->
                     LET nbrs == neighbors(an.graph,
                                     get_by_right(an.graph, source_label, internal_id),
                                     source_label, e.label, direction)
                     IN  SumSeq([i \in DOMAIN nbrs |->
                                    state.map[key].count_vec[
                                        get_internal_vertex_map(an.graph, start.label_id)[
                                            nbrs[i]]]])])

\* The work of update_star_state for one length above 0: for every schema
\* vertex, first along its outgoing schema edges and then along its incoming
\* ones, every suffix.
suffix_work(source_label, e, direction, sfx) ==
    [si \in DOMAIN sfx |->
        [source_label |-> source_label, e |-> e, direction |-> direction,
         suffix |-> sfx[si]]]

star_state_work(an, current_length) ==
    Flatten([vi \in DOMAIN an.schema.vertices |->
        Flatten([d \in 1..2 |->
            LET source_label == an.schema.vertices[vi].label
                es == IF d = 1 THEN schema_outgoing_edges(an.schema, source_label)
                      ELSE schema_incoming_edges(an.schema, source_label)
            IN  Flatten([ei \in DOMAIN es |->
                    suffix_work(source_label, es[ei], IF d = 1 THEN Out ELSE In,
                                star_suffixes(an.schema,
                                              IF d = 1 THEN es[ei].to ELSE es[ei].from,
                                              current_length - 1))])])])

RECURSIVE update_star_state_loop(_, _, _)
update_star_state_loop(an, work, state) ==
    IF work = <<>> THEN state
    ELSE update_star_state_loop(
             an, Tail(work),
             update_star_state_suffix(an, Head(work).source_label, Head(work).e,
                                      Head(work).direction, Head(work).suffix, state))

RECURSIVE update_star_state_zero(_, _, _)
update_star_state_zero(an, vs, state) ==
    IF vs = <<>> THEN state
    ELSE update_star_state_zero(
             an, Tail(vs),
             save_star_path(state, Head(vs).label, 0,
                            [i \in 0..(Len(an.graph.vertices[Head(vs).label]) - 1) |-> 1],
                            SingleVertexPath(Head(vs).label)))

update_star_state(an, state, current_length) ==
    IF current_length = 0 THEN update_star_state_zero(an, an.schema.vertices, state)
    ELSE update_star_state_loop(an, star_state_work(an, current_length), state)

RECURSIVE star_state_upto(_, _)
\* The star state after the lengths 0..n.
star_state_upto(an, n) ==
    update_star_state(an,
                      IF n = 0 THEN [ok |-> TRUE, map |-> EmptyMap]
                      ELSE star_state_upto(an, n - 1),
                      n)

\* The entries of the star state of one label, in the order of their keys.
star_state_get(state, label) ==
    into_values([k \in {k \in DOMAIN state.map : k[1] = label} |-> state.map[k]])

star_statistics_for_vec(an, label_id, star, center_rank, vec) ==
    [star |-> star, center_rank |-> center_rank,
     count |-> summarize_count_for_vec(vec, get_internal_vertex_map(an.graph, label_id),
                                       compute_bucket_values_for_label(an, label_id)),
     max_degree |-> summarize_max_degree_for_vec(
                        vec, get_internal_vertex_map(an.graph, label_id),
                        compute_bucket_values_for_label(an, label_id))]

\* The second insertion of combine_star_states_for_paths, for a symmetric path.
insert_symmetric(stats, key, end_key) ==
    or_insert(stats, end_key, [stats[key] EXCEPT !.center_rank = end_key[1]])

RECURSIVE combine_star_states_for_paths(_, _, _)
combine_star_states_for_paths(an, entries, stats) ==
    IF entries = <<>> THEN stats
    ELSE LET path == Head(entries).path
             label_id == path_start(path).label_id
             key == <<get_vertex_rank(path, path_start(path).tag_id), encode(path)>>
             inserted == or_insert(stats, key,
                             star_statistics_for_vec(an, label_id, into_general(path), key[1],
                                                     Head(entries).count_vec))
         IN  combine_star_states_for_paths(
                 an, Tail(entries),
                 IF path.edges = <<>> THEN stats
                 ELSE IF is_symmetric(path)
                 THEN insert_symmetric(inserted, key,
                          <<get_vertex_rank(path, path_end(path).tag_id), key[2]>>)
                 ELSE inserted)

RECURSIVE combinations(_, _)
\* Itertools::combinations: the k-element subsequences, in the order of
\* their positions.
combinations(s, k) ==
    IF k = 0 THEN <<<<>>>>
    ELSE IF Len(s) < k THEN <<>>
    ELSE LET with == combinations(Tail(s), k - 1)
         IN  [i \in DOMAIN with |-> <<Head(s)>> \o with[i]] \o combinations(Tail(s), k)

RECURSIVE ProductVecs(_, _)
ProductVecs(vecs, dom) ==
    IF vecs = <<>> THEN [i \in dom |-> 1]
    ELSE LET rest == ProductVecs(Tail(vecs), dom)
         IN  [i \in dom |-> Head(vecs)[i] * rest[i]]

\* The body of the loop over the combinations.
insert_star(an, label_id, merged, vecs, stats) ==
    or_insert(stats, <<merged.center_rank, encode(merged.star)>>,
              star_statistics_for_vec(an, label_id, merged.star, merged.center_rank,
                                      ProductVecs(vecs, DOMAIN Head(vecs))))

RECURSIVE combine_star_states_loop(_, _, _, _)
combine_star_states_loop(an, label_id, combs, stats) ==
    IF combs = <<>> THEN stats
    ELSE combine_star_states_loop(
             an, label_id, Tail(combs),
             insert_star(an, label_id,
                         merge_paths_to_star([i \in DOMAIN Head(combs) |-> Head(combs)[i].path]),
                         [i \in DOMAIN Head(combs) |-> Head(combs)[i].count_vec], stats))

combine_star_states_for_stars(an, label_id, degree, entries, stats) ==
    combine_star_states_loop(
        an, label_id,
        combinations(SelectSeq(entries, LAMBDA x : /\ x.path.edges # <<>>
                                                  /\ Len(x.path.edges) <= an.max_star_length),
                     degree),
        stats)

RECURSIVE combine_star_states_upto(_, _, _, _, _)
\* The loop over the degrees 1..degree.
combine_star_states_upto(an, label_id, degree, entries, stats) ==
    IF degree = 0 THEN stats
    ELSE combine_star_states_for_stars(
             an, label_id, degree, entries,
             combine_star_states_upto(an, label_id, degree - 1, entries, stats))

\* The single-vertex path of a label, inserted first.
insert_vertex_star(an, label_id, entry, stats) ==
    MapPut(stats, <<get_vertex_rank(entry.path, 0), encode(entry.path)>>,
           star_statistics_for_vec(an, label_id, into_general(entry.path),
                                   get_vertex_rank(entry.path, 0), entry.count_vec))

\* The body of the loop of compute_star_statistics over the schema vertices.
star_statistics_for_label(an, label_id, entries, stats) ==
    combine_star_states_upto(
        an, label_id, an.max_star_degree, entries,
        combine_star_states_for_paths(
            an, entries,
            insert_vertex_star(an, label_id,
                               SelectSeq(entries, LAMBDA x : x.path.edges = <<>>)[1], stats)))

RECURSIVE compute_star_statistics_from(_, _, _, _)
compute_star_statistics_from(an, vs, state, stats) ==
    IF vs = <<>> THEN stats
    ELSE compute_star_statistics_from(
             an, Tail(vs), state,
             star_statistics_for_label(an, Head(vs).label,
                                       star_state_get(state, Head(vs).label), stats))

\* The validation of the star state: every path starts at a vertex of the
\* state's label and is saved under the rank of its start.
star_state_valid(state) ==
    /\ state.ok
    /\ \A k \in DOMAIN state.map :
          /\ path_start(state.map[k].path).label_id = k[1]
          /\ get_vertex_rank(state.map[k].path, path_start(state.map[k].path).tag_id) = k[2]
          /\ \E z \in DOMAIN state.map : z[1] = k[1] /\ state.map[z].path.edges = <<>>

finish_star_statistics(an, state) ==
    IF star_state_valid(state)
    THEN Ok(compute_star_statistics_from(an, an.schema.vertices, state, EmptyMap))
    ELSE Err("panic")

compute_star_statistics(an) == finish_star_statistics(an, star_state_upto(an, an.max_path_length))

(***************************************************************************)
(* catalog_builder.rs: CatalogBuilder::build.  The bucket map is the       *)
(* outcome of the binning: some map of every vertex to a bucket.  The      *)
(* statistics go into the catalog in the order of the two BTreeMaps.       *)
(***************************************************************************)
RECURSIVE add_paths(_, _)
add_paths(r, stats) ==
    IF stats = <<>> \/ ~r.result.ok THEN r
    ELSE add_paths(add_path(r.catalog, Head(stats)), Tail(stats))

RECURSIVE add_stars(_, _)
add_stars(r, stats) ==
    IF stats = <<>> \/ ~r.result.ok THEN r
    ELSE add_stars(add_star(r.catalog, Head(stats)), Tail(stats))

RECURSIVE add_edge_counts(_, _, _)
add_edge_counts(r, g, es) ==
    IF es = <<>> \/ ~r.result.ok THEN r
    ELSE add_edge_counts(add_edge_count(r.catalog, Head(es).label,
                                        get_num_edges(g, Head(es).label)),
                         g, Tail(es))

\* The part of build after the two statistics have been computed.
build_catalog(sch, g, path_stat_map, star_stat_map) ==
    IF ~path_stat_map.ok \/ ~star_stat_map.ok THEN Err("panic")
    ELSE LET r == add_edge_counts(
                      add_stars(
                          add_paths([catalog |-> DuckCatalog_init, result |-> Ok(0)],
                                    into_values([k \in {<<c>> : c \in DOMAIN path_stat_map.value}
                                                    |-> path_stat_map.value[k[1]]])),
                          into_values(star_stat_map.value)),
                      g, sch.edges)
         IN  IF r.result.ok THEN Ok(r.catalog) ELSE r.result

CatalogBuilder_build(an) ==
    build_catalog(an.schema, an.graph, compute_path_statistics(an), compute_star_statistics(an))

(***************************************************************************)
(* estimate/decompose/heuristic.rs: the candidate paths.  A PathRef and a  *)
(* PathSegment are records of the vertex tags and the edge tags along the  *)
(* path.  A panic of the code is a result whose ok is FALSE.               *)
(***************************************************************************)
PathRef_new(source) == [vertices |-> <<source>>, edges |-> <<>>]

PathRef_push(path, vertex, edge) ==
    [vertices |-> Append(path.vertices, vertex), edges |-> Append(path.edges, edge)]

segment_start(segment) == segment.vertices[1]

segment_end(segment) == segment.vertices[Len(segment.vertices)]

\* split_at: the segment up to the vertex at vertex_index (counted from 0)
\* and the segment from it.
split_at(segment, vertex_index) ==
    <<[vertices |-> SubSeq(segment.vertices, 1, vertex_index + 1),
       edges |-> SubSeq(segment.edges, 1, vertex_index)],
      [vertices |-> SubSeq(segment.vertices, vertex_index + 1, Len(segment.vertices)),
       edges |-> SubSeq(segment.edges, vertex_index + 1, Len(segment.edges))]>>

RECURSIVE walk_candidate_path(_, _, _)
\* The while loop of find_candidate_paths_from_vertex: w holds the path and
\* the visited edges.
walk_candidate_path(p, pivots, w) ==
    LET unvisited == SelectSeq(adjacencies(p, segment_end(w.path)),
                               LAMBDA adj : adj.edge_tag_id \notin w.visited)
    IN  IF segment_end(w.path) \in pivots \/ unvisited = <<>> THEN w
        ELSE walk_candidate_path(
                 p, pivots,
                 [path |-> PathRef_push(w.path, unvisited[1].neighbor_tag_id,
                                        unvisited[1].edge_tag_id),
                  visited |-> w.visited \cup {unvisited[1].edge_tag_id}])

\* One round of the for loop: r holds the results and the visited edges.
candidate_path_step(p, pivots, source, adj, r) ==
    IF adj.edge_tag_id \in r.visited THEN r
    ELSE LET w == walk_candidate_path(
                      p, pivots,
                      [path |-> PathRef_push(PathRef_new(source), adj.neighbor_tag_id,
                                             adj.edge_tag_id),
                       visited |-> r.visited \cup {adj.edge_tag_id}])
         IN  [results |-> Append(r.results, w.path), visited |-> w.visited]

RECURSIVE find_candidate_paths_from_vertex(_, _, _, _, _)
find_candidate_paths_from_vertex(p, pivots, source, adjs, r) ==
    IF adjs = <<>> THEN r
    ELSE find_candidate_paths_from_vertex(
             p, pivots, source, Tail(adjs),
             candidate_path_step(p, pivots, source, Head(adjs), r))

RECURSIVE candidate_paths_loop(_, _, _, _, _)
\* The pivots in ascending order, one set of visited edges for all of them;
\* the result lists <<pivot, paths>>.
candidate_paths_loop(p, pivots, todo, visited, out) ==
    IF todo = <<>> THEN out
    ELSE LET r == find_candidate_paths_from_vertex(
                      p, pivots, Head(todo), adjacencies(p, Head(todo)),
                      [results |-> <<>>, visited |-> visited])
         IN  candidate_paths_loop(p, pivots, Tail(todo), r.visited,
                                  Append(out, <<Head(todo), r.results>>))

find_candidate_paths_with_pivots(p, pivots) ==
    candidate_paths_loop(p, pivots, SortedSeq(pivots), {}, <<>>)

find_pivots(p) == {v.tag_id : v \in {v \in Range(p.vertices) : get_vertex_degree(p, v.tag_id) >= 3}}

\* collect_tuple().unwrap() panics unless exactly two vertices have degree 1.
degree_one(p) ==
    {v.tag_id : v \in {v \in Range(p.vertices) : get_vertex_degree(p, v.tag_id) = 1}}

find_candidate_paths(p) ==
    IF is_path(p) /\ Cardinality(degree_one(p)) # 2 THEN Err("panic")
    ELSE Ok(find_candidate_paths_with_pivots(
                p,
                IF is_path(p) THEN {SetMin(degree_one(p))}
                ELSE IF is_cycle(p) THEN {SetMin(VertexTags(p))}
                ELSE find_pivots(p)))

(***************************************************************************)
(* estimate/catalog_pattern.rs: CatalogEdge and CatalogPattern.  The kind  *)
(* of an edge is its name and the list of its vertices (the center; src    *)
(* and dst; the vertices of a general edge).                               *)
(***************************************************************************)
CatalogVertex(tag_id, label_id) == [tag_id |-> tag_id, label_id |-> label_id]

CatalogEdge_star(tag_id, label_id, center) ==
    [tag_id |-> tag_id, label_id |-> label_id, kind |-> "Star", vertices |-> <<center>>]

CatalogEdge_path(tag_id, label_id, src, dst) ==
    [tag_id |-> tag_id, label_id |-> label_id, kind |-> "Path", vertices |-> <<src, dst>>]

CatalogEdge_general(tag_id, label_id, vertices) ==
    [tag_id |-> tag_id, label_id |-> label_id, kind |-> "General", vertices |-> vertices]

CatalogPattern_new ==
    [vertices |-> <<>>, edges |-> <<>>, tag_vertex_map |-> EmptyMap,
     tag_edge_map |-> EmptyMap, adj_list |-> EmptyMap]

\* add_vertex and add_edge assert that the tag is new: ok tells whether the
\* assertion held.
add_vertex(cp, vertex) ==
    [ok |-> vertex.tag_id \notin DOMAIN cp.tag_vertex_map,
     value |-> [cp EXCEPT !.tag_vertex_map = MapPut(@, vertex.tag_id, Len(cp.vertices)),
                          !.vertices = Append(@, vertex),
                          !.adj_list = or_insert(@, vertex.tag_id, {})]]

add_edge(cp, edge) ==
    [ok |-> edge.tag_id \notin DOMAIN cp.tag_edge_map,
     value |-> [cp EXCEPT !.tag_edge_map = MapPut(@, edge.tag_id, Len(cp.edges)),
                          !.edges = Append(@, edge),
                          !.adj_list = [v \in DOMAIN @ \cup Range(edge.vertices) |->
                                           IF v \in Range(edge.vertices)
                                           THEN (IF v \in DOMAIN @ THEN @[v] ELSE {})
                                                \cup {edge.tag_id}
                                           ELSE @[v]]]]

catalog_vertices(cp) == SelectSeq(cp.vertices, LAMBDA v : v.tag_id \in DOMAIN cp.tag_vertex_map)

catalog_edges(cp) == SelectSeq(cp.edges, LAMBDA e : e.tag_id \in DOMAIN cp.tag_edge_map)

catalog_get_edge(cp, tag_id) == cp.edges[cp.tag_edge_map[tag_id] + 1]

incident_edges(cp, tag_id) ==
    LET tags == SortedSeq(cp.adj_list[tag_id])
    IN  [i \in DOMAIN tags |-> catalog_get_edge(cp, tags[i])]

(***************************************************************************)
(* estimate/decompose/heuristic.rs: HeuristicDecomposer.                   *)
(***************************************************************************)
HeuristicDecomposer_new(cat, max_path_length, max_star_length, max_star_degree, limit, disable_star, disable_prune, disable_cyclic) ==
    [catalog |-> cat, max_path_length |-> max_path_length,
     max_star_length |-> IF disable_star THEN 0 ELSE max_star_length,
     max_star_degree |-> IF disable_star THEN 0 ELSE max_star_degree,
     limit |-> limit, disable_star |-> disable_star, disable_prune |-> disable_prune,
     disable_cyclic |-> disable_cyclic]

\* The tail of translate_path: the lookups in the catalog and the
\* orientation of the edge.
translate_path_lookup(d, segment, path, label_id, catalog_path) ==
    LET start_rank == get_vertex_rank(path, path_start(path).tag_id)
        end_rank == get_vertex_rank(path, path_end(path).tag_id)
    IN  IF label_id = NoLabel \/ ~catalog_path.ok THEN Err("panic")
        ELSE LET catalog_start_rank == get_vertex_rank(catalog_path.value,
                                                       path_start(catalog_path.value).tag_id)
                 catalog_end_rank == get_vertex_rank(catalog_path.value,
                                                     path_end(catalog_path.value).tag_id)
             IN  IF <<start_rank, end_rank>> = <<catalog_start_rank, catalog_end_rank>>
                 THEN Ok(CatalogEdge_path(segment.edges[1], label_id, segment_start(segment),
                                          segment_end(segment)))
                 ELSE IF <<start_rank, end_rank>> = <<catalog_end_rank, catalog_start_rank>>
                 THEN Ok(CatalogEdge_path(segment.edges[1], label_id, segment_end(segment),
                                          segment_start(segment)))
                 ELSE Err("panic")

translate_path_label(d, segment, path, label_id) ==
    translate_path_lookup(d, segment, path, label_id, get_path(d.catalog, label_id))

translate_path_found(d, segment, path) ==
    IF ~path.ok THEN Err("panic")
    ELSE translate_path_label(d, segment, path.pattern,
                              get_path_label_id(d.catalog, encode(path.pattern)))

\* The vertices and the edges of a segment.
segment_pattern(p, segment) ==
    RawPattern([i \in DOMAIN segment.vertices |-> get_vertex(p, segment.vertices[i])],
               [i \in DOMAIN segment.edges |-> get_edge(p, segment.edges[i])])

\* The pattern of a segment that ends where it starts: its end becomes a new
\* vertex of the same label, and its last edge moves there.
open_end(raw, end, next_tag) ==
    RawPattern([raw.vertices EXCEPT ![Len(raw.vertices)] = PatternVertex(next_tag, end.label_id)],
               [raw.edges EXCEPT ![Len(raw.edges)] =
                   IF @.src = end.tag_id
                   THEN PatternEdge(@.tag_id, next_tag, @.dst, @.label_id)
                   ELSE PatternEdge(@.tag_id, @.src, next_tag, @.label_id)])

path_of_segment(raw, same_ends) ==
    IF ~same_ends THEN raw
    ELSE open_end(raw, raw.vertices[Len(raw.vertices)],
                  SetMax({v.tag_id + 1 : v \in Range(raw.vertices)}))

translate_path(d, p, segment) ==
    IF segment.edges = <<>> THEN Err("panic")
    ELSE translate_path_found(
             d, segment,
             to_path(path_of_segment(segment_pattern(p, segment),
                                     segment_start(segment) = segment_end(segment))))

translate_star_label(segments, center, star, label_id) ==
    IF label_id = NoLabel THEN Err("panic")
    ELSE Ok(CatalogEdge_star(
                IF star.edges = <<>> THEN segment_start(segments[1]) ELSE star.edges[1].tag_id,
                label_id, center))

translate_star_found(d, segments, center, star) ==
    IF ~star.ok THEN Err("panic")
    ELSE translate_star_label(
             segments, center, star.pattern,
             get_star_label_id(d.catalog, get_vertex_rank(star.pattern, center),
                               encode(star.pattern)))

translate_star(d, p, segments, center) ==
    LET start == segment_start(segments[1])
        vs == Flatten([i \in DOMAIN segments |-> Tail(segments[i].vertices)]) \o <<start>>
        es == Flatten([i \in DOMAIN segments |-> segments[i].edges])
    IN  IF segments = <<>> \/ \E i \in DOMAIN segments : segment_start(segments[i]) # start
        THEN Err("panic")
        ELSE translate_star_found(
                 d, segments, center,
                 to_general(RawPattern([i \in DOMAIN vs |-> get_vertex(p, vs[i])],
                                       [i \in DOMAIN es |-> get_edge(p, es[i])])))

\* The hyperedges of a decomposition are kept with the segments they were
\* translated from: an item is the result of the translation and the list
\* of its segments.
\* The first segment of a path only: the edges after max_path_length are
\* left out.
split_path_first(path, max_path_length) ==
    IF Len(path.edges) > max_path_length THEN <<split_at(path, max_path_length)[1]>>
    ELSE IF Len(path.edges) > 0 THEN <<path>> ELSE <<>>

RECURSIVE split_path(_, _)
\* The while loop of decompose_path and the push of the last segment.
split_path(path, max_path_length) ==
    IF Len(path.edges) > max_path_length
    THEN <<split_at(path, max_path_length)[1]>>
         \o split_path(split_at(path, max_path_length)[2], max_path_length)
    ELSE IF Len(path.edges) > 0 THEN <<path>> ELSE <<>>

\* decompose_segment with its stars centred at the start of the segment.
decompose_segment_centred_at_start(d, p, segment) ==
    LET start_degree == get_vertex_degree(p, segment_start(segment))
        end_degree == get_vertex_degree(p, segment_end(segment))
    IN  [edge |-> IF d.disable_star \/ (start_degree > 1 /\ end_degree > 1)
                  THEN translate_path(d, p, segment)
                  ELSE translate_star(d, p, <<segment>>, segment_start(segment)),
         segments |-> <<segment>>]

decompose_segment(d, p, segment) ==
    LET start_degree == get_vertex_degree(p, segment_start(segment))
        end_degree == get_vertex_degree(p, segment_end(segment))
    IN  [edge |-> IF d.disable_star \/ (start_degree > 1 /\ end_degree > 1)
                  THEN translate_path(d, p, segment)
                  ELSE translate_star(d, p, <<segment>>,
                                      IF start_degree = 1 THEN segment_end(segment)
                                      ELSE segment_start(segment)),
         segments |-> <<segment>>]

decompose_path(d, p, path) ==
    LET segments == split_path(path, d.max_path_length)
    IN  [i \in DOMAIN segments |-> decompose_segment(d, p, segments[i])]

\* The key PathSegmentWrapper is ordered by: the labels of the vertices
\* interleaved with the labels of the edges.
segment_labels(p, segment) ==
    [i \in 1..(Len(segment.vertices) + Len(segment.edges)) |->
        IF i % 2 = 1 THEN LabelOf(p, segment.vertices[(i + 1) \div 2])
        ELSE get_edge(p, segment.edges[i \div 2]).label_id]

cmp_segment(p, a, b) == CmpBytes(segment_labels(p, a), segment_labels(p, b))

RECURSIVE sort_segments(_, _)
\* sort_unstable on a short slice: insertion sort.
sort_segments(p, s) ==
    IF Len(s) <= 1 THEN s
    ELSE LET front == sort_segments(p, SubSeq(s, 1, Len(s) - 1))
             x == s[Len(s)]
             k == Cardinality({i \in DOMAIN front :
                                  \A j \in 1..i : cmp_segment(p, front[j], x) <= 0})
         IN  SubSeq(front, 1, k) \o <<x>> \o SubSeq(front, k + 1, Len(front))

RECURSIVE partition_dedup(_, _, _, _)
\* slice::partition_dedup: next_read and next_write are the positions,
\* counted from 1, of the element read and of the place written.
partition_dedup(p, s, next_read, next_write) ==
    IF next_read > Len(s)
    THEN IF Len(s) <= 1 THEN <<s, <<>>>>
         ELSE <<SubSeq(s, 1, next_write - 1), SubSeq(s, next_write, Len(s))>>
    ELSE IF cmp_segment(p, s[next_read], s[next_write - 1]) # 0
    THEN partition_dedup(p, [s EXCEPT ![next_read] = s[next_write],
                                      ![next_write] = s[next_read]],
                         next_read + 1, next_write + 1)
    ELSE partition_dedup(p, s, next_read + 1, next_write)

RECURSIVE translate_stars(_, _, _, _)
\* One star of the distinct segments, then the same for the duplicates.
translate_stars(d, p, pivot, segments) ==
    IF segments = <<>> THEN <<>>
    ELSE LET parts == partition_dedup(p, sort_segments(p, segments), 2, 2)
         IN  <<[edge |-> translate_star(d, p, parts[1], pivot), segments |-> parts[1]]>>
             \o translate_stars(d, p, pivot, parts[2])

\* The body of the loop of decompose_candidate_paths over the pivots.
decompose_pivot(d, p, pivot, paths) ==
    LET is_mergeable(path) == /\ get_vertex_degree(p, segment_end(path)) = 1
                              /\ Len(path.edges) <= d.max_star_length
        all_mergeable == SelectSeq(paths, is_mergeable)
        unmergeable == SelectSeq(paths, LAMBDA path : ~is_mergeable(path))
        mergeable == IF Len(all_mergeable) > d.max_star_degree
                     THEN SubSeq(all_mergeable, 1, d.max_star_degree) ELSE all_mergeable
        remaining_mergeable == IF Len(all_mergeable) > d.max_star_degree
                               THEN SubSeq(all_mergeable, d.max_star_degree + 1,
                                           Len(all_mergeable))
                               ELSE <<>>
        rest == remaining_mergeable \o unmergeable
    IN  translate_stars(d, p, pivot, mergeable)
        \o Flatten([i \in DOMAIN rest |-> decompose_path(d, p, rest[i])])

RECURSIVE build_catalog_pattern(_, _, _)
\* The second loop of decompose_candidate_paths: the vertices of every edge
\* that are not yet in the pattern, then the edge.
build_catalog_pattern(p, items, r) ==
    IF items = <<>> \/ ~r.ok THEN r
    ELSE IF ~Head(items).edge.ok THEN [ok |-> FALSE, value |-> r.value]
    ELSE LET edge == Head(items).edge.value
             vs == edge.vertices
             missing1 == vs[1] \notin DOMAIN r.value.tag_vertex_map
             with1 == IF missing1
                      THEN add_vertex(r.value, CatalogVertex(vs[1], LabelOf(p, vs[1]))).value
                      ELSE r.value
             missing2 == Len(vs) = 2 /\ vs[2] \notin DOMAIN with1.tag_vertex_map
             with2 == IF missing2
                      THEN add_vertex(with1, CatalogVertex(vs[2], LabelOf(p, vs[2]))).value
                      ELSE with1
         IN  build_catalog_pattern(p, Tail(items), add_edge(with2, edge))

\* A decomposition: the catalog pattern, the segments of every hyperedge in
\* the order of the edges, and the edge tags of the pattern decomposed.
decomposition(p, items, built) ==
    IF ~built.ok THEN Err("panic")
    ELSE Ok([catalog_pattern |-> built.value,
             segments |-> [i \in DOMAIN items |-> items[i].segments],
             decomposed |-> EdgeTags(p)])

decompose_items(p, items) ==
    decomposition(p, items,
                  build_catalog_pattern(p, items, [ok |-> TRUE, value |-> CatalogPattern_new]))

decompose_candidate_paths(d, p, candidate_paths) ==
    decompose_items(p, Flatten([i \in DOMAIN candidate_paths |->
                                   decompose_pivot(d, p, candidate_paths[i][1],
                                                   candidate_paths[i][2])]))

\* A pattern with its candidate paths, or a panic on the way to them.
with_candidate_paths(p, candidate_paths) ==
    IF candidate_paths.ok THEN Ok([pattern |-> p, candidate_paths |-> candidate_paths.value])
    ELSE Err("panic")

decompose_found(d, found) ==
    IF ~found.ok THEN Err("panic")
    ELSE decompose_candidate_paths(d, found.value.pattern, found.value.candidate_paths)

decompose_with_pivots(d, p, pivots) ==
    decompose_found(d, with_candidate_paths(p, Ok(find_candidate_paths_with_pivots(p, pivots))))

decompose_acyclic(d, p) ==
    decompose_found(d, with_candidate_paths(p, find_candidate_paths(p)))

(***************************************************************************)
(* petgraph's UnGraphMap as generate_spanning_trees uses it: the nodes in  *)
(* the order of their insertion and the edges, keyed by the unordered      *)
(* pair of their ends, in the order IndexMap keeps (swap_remove on         *)
(* removal).  Two edges between the same ends share one key.               *)
(***************************************************************************)
edge_key(a, b) == IF a <= b THEN <<a, b>> ELSE <<b, a>>

UnGraphMap_new == [nodes |-> <<>>, edges |-> <<>>]

ungraph_add_node(nodes, a) == IF a \in Range(nodes) THEN nodes ELSE Append(nodes, a)

ungraph_add_edge(g, a, b, weight) ==
    IF \E i \in DOMAIN g.edges : g.edges[i].key = edge_key(a, b)
    THEN [g EXCEPT !.edges = [i \in DOMAIN @ |->
                                 IF @[i].key = edge_key(a, b)
                                 THEN [key |-> @[i].key, weight |-> weight] ELSE @[i]]]
    ELSE [nodes |-> ungraph_add_node(ungraph_add_node(g.nodes, a), b),
          edges |-> Append(g.edges, [key |-> edge_key(a, b), weight |-> weight])]

ungraph_remove_edge(g, a, b) ==
    IF \E i \in DOMAIN g.edges : g.edges[i].key = edge_key(a, b)
    THEN LET i == CHOOSE i \in DOMAIN g.edges : g.edges[i].key = edge_key(a, b)
             n == Len(g.edges)
         IN  [g EXCEPT !.edges = SubSeq([g.edges EXCEPT ![i] = g.edges[n]], 1, n - 1)]
    ELSE g

RECURSIVE union_find(_, _)
\* is_cyclic_undirected: comp maps every node to its component; an edge
\* inside one component closes a cycle.
union_find(edges, comp) ==
    IF edges = <<>> THEN FALSE
    ELSE LET a == Head(edges).key[1]
             b == Head(edges).key[2]
         IN  IF comp[a] = comp[b] THEN TRUE
             ELSE union_find(Tail(edges),
                             [x \in DOMAIN comp |-> IF comp[x] = comp[b] THEN comp[a]
                                                    ELSE comp[x]])

is_cyclic_undirected(g) == union_find(g.edges, [x \in Range(g.nodes) |-> x])

RECURSIVE ungraph_add_edges(_, _)
ungraph_add_edges(g, es) ==
    IF es = <<>> THEN g
    ELSE ungraph_add_edges(ungraph_add_edge(g, Head(es).src, Head(es).dst, Head(es).tag_id),
                           Tail(es))

RECURSIVE ungraph_remove_edges(_, _)
ungraph_remove_edges(g, es) ==
    IF es = <<>> THEN g
    ELSE ungraph_remove_edges(ungraph_remove_edge(g, Head(es).src, Head(es).dst), Tail(es))

(***************************************************************************)
(* estimate/decompose/heuristic.rs: the spanning trees.                    *)
(***************************************************************************)
RECURSIVE visit_adjacencies(_, _, _)
\* The for loop of generate_initial_spanning_tree over the adjacencies of
\* the vertex popped.
visit_adjacencies(p, adjs, s) ==
    IF adjs = <<>> THEN s
    ELSE IF Head(adjs).neighbor_tag_id \in s.visited THEN visit_adjacencies(p, Tail(adjs), s)
    ELSE visit_adjacencies(
             p, Tail(adjs),
             [s EXCEPT !.visited = @ \cup {Head(adjs).neighbor_tag_id},
                       !.frontier = Append(@, Head(adjs).neighbor_tag_id),
                       !.edges = Append(@, get_edge(p, Head(adjs).edge_tag_id))])

RECURSIVE initial_spanning_tree_loop(_, _)
initial_spanning_tree_loop(p, s) ==
    IF s.frontier = <<>> THEN s
    ELSE LET current == s.frontier[Len(s.frontier)]
         IN  initial_spanning_tree_loop(
                 p,
                 visit_adjacencies(
                     p, adjacencies(p, current),
                     [s EXCEPT !.frontier = SubSeq(@, 1, Len(@) - 1),
                               !.vertices = Append(@, get_vertex(p, current))]))

\* to_general(..).unwrap() and the two assertions on the size of the tree.
checked_tree(p, tree) ==
    IF tree.ok /\ Len(tree.pattern.vertices) = Len(p.vertices)
               /\ Len(tree.pattern.edges) = Len(p.vertices) - 1
    THEN Ok(tree.pattern) ELSE Err("panic")

generate_initial_spanning_tree(p) ==
    LET i == SetMin({i \in DOMAIN p.vertices :
                        \A j \in DOMAIN p.vertices :
                            get_vertex_degree(p, p.vertices[i].tag_id)
                                <= get_vertex_degree(p, p.vertices[j].tag_id)})
        start == p.vertices[i].tag_id
        s == initial_spanning_tree_loop(
                 p, [frontier |-> <<start>>, visited |-> {start}, vertices |-> <<>>,
                     edges |-> <<>>])
    IN  checked_tree(p, to_general(RawPattern(s.vertices, s.edges)))

\* Ones: the positions, counted from 0, of the bits of a code that are set,
\* in ascending order.
ones(bits, width) == SelectSeq([i \in 1..width |-> i - 1], LAMBDA i : (bits \div (2 ^ i)) % 2 = 1)

count_ones(bits, width) == Len(ones(bits, width))

pick_edges(es, bits) ==
    LET idx == ones(bits, Len(es)) IN [k \in DOMAIN idx |-> es[idx[k] + 1]]

\* The pattern of a tree: the nodes and the edges of the map in its order.
tree_pattern(p, tree) ==
    to_general(RawPattern([i \in DOMAIN tree.nodes |-> get_vertex(p, tree.nodes[i])],
                          [i \in DOMAIN tree.edges |-> get_edge(p, tree.edges[i].weight)]))

\* An acyclic map is pushed as a tree; the branches come back unless the
\* limit is reached.  s holds the map, the trees, ok and done.
push_tree(limit, s, t, picked) ==
    IF ~t.ok THEN [s EXCEPT !.ok = FALSE]
    ELSE IF Len(s.trees) + 1 = limit
    THEN [s EXCEPT !.trees = Append(@, t.pattern), !.done = TRUE]
    ELSE [s EXCEPT !.trees = Append(@, t.pattern), !.tree = ungraph_add_edges(@, picked)]

\* The body of the loop over the branch codes: removed is the map without
\* the branches picked.
\* The body of the loop over the branch codes: removed is the map without
\* the branches picked.
branch_step(p, limit, s, removed, picked) ==
    IF is_cyclic_undirected(removed)
    THEN [s EXCEPT !.tree = ungraph_add_edges(removed, picked)]
    ELSE push_tree(limit, [s EXCEPT !.tree = removed], tree_pattern(p, removed), picked)

branch_picked(p, limit, s, picked) ==
    branch_step(p, limit, s, ungraph_remove_edges(s.tree, picked), picked)

RECURSIVE branch_loop(_, _, _, _, _)
branch_loop(p, limit, branch_edges, codes, s) ==
    IF codes = <<>> \/ s.done \/ ~s.ok THEN s
    ELSE branch_loop(p, limit, branch_edges, Tail(codes),
                     branch_picked(p, limit, s, pick_edges(branch_edges, Head(codes))))

\* The body of the loop over the chord codes.
\* The branch codes of as many ones as the chord code.
branch_codes(branch_edges, chord_num) ==
    SelectSeq([c \in 1..(2 ^ Len(branch_edges) - 1) |-> c],
              LAMBDA c : count_ones(c, Len(branch_edges)) = chord_num)

without_chords(after, chords) ==
    IF after.done \/ ~after.ok THEN after
    ELSE [after EXCEPT !.tree = ungraph_remove_edges(@, chords)]

\* The body of the loop over the chord codes.
chord_step(p, limit, branch_edges, chords, chord_num, s) ==
    without_chords(branch_loop(p, limit, branch_edges, branch_codes(branch_edges, chord_num),
                               [s EXCEPT !.tree = ungraph_add_edges(@, chords)]),
                   chords)

RECURSIVE chord_loop(_, _, _, _, _, _)
chord_loop(p, limit, branch_edges, chord_edges, codes, s) ==
    IF codes = <<>> \/ s.done \/ ~s.ok THEN s
    ELSE chord_loop(p, limit, branch_edges, chord_edges, Tail(codes),
                    chord_step(p, limit, branch_edges, pick_edges(chord_edges, Head(codes)),
                               count_ones(Head(codes), Len(chord_edges)), s))

\* generate_spanning_trees after the initial tree has been built.
trees_of(s) == IF s.ok THEN Ok(s.trees) ELSE Err("panic")

\* generate_spanning_trees after the initial tree has been built.
spanning_trees_from(p, limit, initial) ==
    LET chord_edges == SelectSeq(p.edges, LAMBDA e : e.tag_id \notin EdgeTags(initial))
        width == IF Len(chord_edges) < Len(initial.edges) THEN Len(chord_edges)
                 ELSE Len(initial.edges)
    IN  IF limit = 1 THEN Ok(<<initial>>)
        ELSE trees_of(chord_loop(p, limit, initial.edges, chord_edges,
                                 [c \in 1..(2 ^ width - 1) |-> c],
                                 [tree |-> ungraph_add_edges(UnGraphMap_new, initial.edges),
                                  trees |-> <<initial>>, ok |-> TRUE, done |-> FALSE]))

spanning_trees_of(p, limit, initial) ==
    IF ~initial.ok THEN Err("panic") ELSE spanning_trees_from(p, limit, initial.value)

generate_spanning_trees(p, limit) ==
    IF limit = 0 THEN Ok(<<>>)
    ELSE spanning_trees_of(p, limit, generate_initial_spanning_tree(p))

\* prune: the map of the pivots to the pivots their candidate paths end at.
prune_neighbors(p, candidate_paths) ==
    LET pairs == UNION {{<<candidate_paths[i][1], segment_end(candidate_paths[i][2][j])>> :
                            j \in {j \in DOMAIN candidate_paths[i][2] :
                                      LET end == segment_end(candidate_paths[i][2][j])
                                      IN  /\ end # candidate_paths[i][1]
                                          /\ get_vertex_degree(p, end) # 1}} :
                        i \in DOMAIN candidate_paths}
        keys == {x[1] : x \in pairs} \cup {x[2] : x \in pairs}
    IN  [k \in keys |-> {x[2] : x \in {x \in pairs : x[1] = k}}
                        \cup {x[1] : x \in {x \in pairs : x[2] = k}}]

\* max_by_key keeps the last of the largest.
max_count_edge(d, p, edges) ==
    LET count(i) == get_edge_count(d.catalog, get_edge(p, edges[i]).label_id).value
    IN  edges[SetMax({i \in DOMAIN edges : \A j \in DOMAIN edges : count(j) <= count(i)})]

edges_to_prune(d, p, candidate_paths, victim, num) ==
    LET found == {i \in DOMAIN candidate_paths : candidate_paths[i][1] = victim}
        paths == candidate_paths[CHOOSE i \in found : TRUE][2]
    IN  IF found = {} THEN Err("panic")
        ELSE IF Len(paths) < num THEN Err("panic")
        ELSE IF \E i \in 1..num : \E e \in Range(paths[i].edges) :
                    ~get_edge_count(d.catalog, get_edge(p, e).label_id).ok
        THEN Err("panic")
        ELSE Ok([i \in 1..num |-> max_count_edge(d, p, paths[i].edges)])

RECURSIVE prune_victims(_, _, _, _)
\* The while loop of prune over the map of neighbors.
prune_victims(d, p, candidate_paths, nbrs) ==
    IF DOMAIN nbrs = {} THEN Ok(<<>>)
    ELSE LET victim == SetMin({k \in DOMAIN nbrs :
                                  \A j \in DOMAIN nbrs :
                                      Cardinality(nbrs[k]) <= Cardinality(nbrs[j])})
             vn == nbrs[victim]
         IN  IF Cardinality(vn) > 2
             THEN edges_to_prune(d, p, candidate_paths, victim, Cardinality(vn) - 2)
             ELSE IF ~(vn \subseteq DOMAIN nbrs) THEN Err("panic")
             ELSE prune_victims(
                      d, p, candidate_paths,
                      [k \in DOMAIN nbrs \ {victim} |->
                          IF k \in vn THEN (nbrs[k] \ {victim}) \cup (vn \ {k}) ELSE nbrs[k]])

RECURSIVE prune_loop(_, _)
pruned_pattern(p, edges) ==
    to_general(RawPattern(p.vertices,
                          SelectSeq(p.edges, LAMBDA e : e.tag_id \notin Range(edges))))

prune_victims_of(d, p, candidate_paths) ==
    prune_victims(d, p, candidate_paths, prune_neighbors(p, candidate_paths))

\* The end of one round of prune: the pattern if nothing is pruned, or
\* the pattern to go on with.
prune_round(p, pruned) ==
    IF ~pruned.ok THEN [done |-> TRUE, result |-> Err("panic")]
    ELSE IF pruned.value = <<>> THEN [done |-> TRUE, result |-> Ok(p)]
    ELSE [done |-> FALSE, result |-> pruned_pattern(p, pruned.value)]

prune_candidates(d, p, candidate_paths) ==
    IF ~candidate_paths.ok THEN [done |-> TRUE, result |-> Err("panic")]
    ELSE prune_round(p, prune_victims_of(d, p, candidate_paths.value))

prune_next(d, round) ==
    IF round.done THEN round.result ELSE prune_loop(d, round.result)

prune_loop(d, p) ==
    IF ~p.ok THEN Err("panic")
    ELSE prune_next(d, prune_candidates(d, p.pattern, find_candidate_paths(p.pattern)))

prune(d, p) == prune_loop(d, to_general(RawPattern(p.vertices, p.edges)))

\* A list of results as the result of the list: a panic if one of them is.
collect(rs) ==
    IF \A i \in DOMAIN rs : rs[i].ok THEN Ok([i \in DOMAIN rs |-> rs[i].value])
    ELSE Err("panic")

\* The patterns decompose_cyclic decomposes after the spanning trees unless
\* the pattern is a cycle: the pattern itself or the pruned one.
cyclic_patterns(d, p) ==
    IF d.disable_cyclic \/ is_cycle(p) THEN <<>>
    ELSE IF d.disable_prune THEN <<Ok(p)>>
    ELSE <<prune(d, p)>>

acyclic_found(r) ==
    IF ~r.ok THEN Err("panic") ELSE with_candidate_paths(r.value, find_candidate_paths(r.value))

\* The patterns with their candidate paths in the order of the result.
cyclic_found(d, p, trees) ==
    IF ~trees.ok THEN <<Err("panic")>>
    ELSE LET rs == [i \in DOMAIN trees.value |-> Ok(trees.value[i])] \o cyclic_patterns(d, p)
         IN  [i \in DOMAIN rs |-> acyclic_found(rs[i])]
             \o (IF ~d.disable_cyclic /\ is_cycle(p)
                 THEN [i \in DOMAIN p.vertices |->
                          Ok([pattern |-> p,
                              candidate_paths |->
                                  find_candidate_paths_with_pivots(p, {p.vertices[i].tag_id})])]
                 ELSE <<>>)

decompose_all(d, found) == collect([i \in DOMAIN found |-> decompose_found(d, found[i])])

decompose_cyclic(d, p) ==
    decompose_all(d, cyclic_found(d, p, generate_spanning_trees(p, d.limit)))

\* The decomposition of a pattern of one vertex and no edge.
decompose_vertex(d, p, edge) ==
    IF ~edge.ok THEN Err("panic")
    ELSE Ok(<<[catalog_pattern |->
                   add_edge(add_vertex(CatalogPattern_new,
                                       CatalogVertex(p.vertices[1].tag_id,
                                                     p.vertices[1].label_id)).value,
                            edge.value).value,
               segments |-> <<<<PathRef_new(p.vertices[1].tag_id)>>>>,
               decomposed |-> {}]>>)

decompose(d, p) ==
    IF p.vertices = <<>> THEN Err("panic")
    ELSE IF Len(p.vertices) = 1 /\ p.edges = <<>>
    THEN decompose_vertex(d, p, translate_star(d, p, <<PathRef_new(p.vertices[1].tag_id)>>,
                                               p.vertices[1].tag_id))
    ELSE IF ~is_cyclic(p) THEN collect(<<decompose_acyclic(d, p)>>)
    ELSE decompose_cyclic(d, p)

(***************************************************************************)
(* estimate/join.rs: the join engine.  A table is the list of its rows; a  *)
(* row holds the bucket id v[x] and the mode mode[x] of every vertex x of  *)
(* the table and the count.  The views of the program are evaluated here   *)
(* when they are created.                                                  *)
(***************************************************************************)
RECURSIVE SetToSeq(_)
SetToSeq(S) == IF S = {} THEN <<>>
               ELSE LET x == CHOOSE x \in S : TRUE IN <<x>> \o SetToSeq(S \ {x})

Least(S) == CHOOSE x \in S : \A y \in S : x <= y

RECURSIVE Product(_)
Product(s) == IF s = <<>> THEN 1 ELSE Head(s) * Product(Tail(s))

remove_vertex(cp, tag_id) ==
    IF tag_id \notin DOMAIN cp.tag_vertex_map THEN cp
    ELSE LET removed == cp.adj_list[tag_id]
         IN  [cp EXCEPT
                 !.tag_vertex_map = [t \in DOMAIN @ \ {tag_id} |-> @[t]],
                 !.tag_edge_map = [t \in DOMAIN @ \ removed |-> @[t]],
                 !.adj_list = [t \in DOMAIN @ \ {tag_id} |-> @[t] \ removed]]

get_vertices_num(cp) == Cardinality(DOMAIN cp.tag_vertex_map)

get_edges_num(cp) == Cardinality(DOMAIN cp.tag_edge_map)

\* TagId is u8: e.tag_id() + 1 does not fit for the tag 255.  A build with
\* overflow checks panics there, a build without them wraps to 0.
next_edge_tag_id_overflows(cp) ==
    \E e \in Range(catalog_edges(cp)) : e.tag_id + 1 >= TagIdModulus

catalog_next_edge_tag_id(cp) ==
    IF catalog_edges(cp) = <<>> THEN 0
    ELSE SetMax({(e.tag_id + 1) % TagIdModulus : e \in Range(catalog_edges(cp))})

original_table_name(prefix, label_id) ==
    IF label_id < LabelIdMax \div 2 THEN <<prefix, label_id>>
    ELSE <<prefix, LabelIdMax \div 2>>

star_view(rows, center) ==
    [i \in DOMAIN rows |->
        [v |-> (center :> rows[i].id), mode |-> (center :> rows[i]._mode),
         count |-> rows[i]._count]]

path_view(rows, src, dst) ==
    [i \in DOMAIN rows |->
        [v |-> (src :> rows[i].s @@ dst :> rows[i].t),
         mode |-> (src :> rows[i]._mode_s @@ dst :> rows[i]._mode_t),
         count |-> rows[i]._count]]

self_cycle_view(rows, src) ==
    [i \in DOMAIN rows |->
        [v |-> (src :> rows[i].s),
         mode |-> (src :> Least({rows[i]._mode_s, rows[i]._mode_t})),
         count |-> rows[i]._count]]

\* The rows of the view create_temp_table creates for an edge.
temp_view_rows(cat, edge) ==
    IF edge.kind = "Star"
    THEN (IF original_table_name("star", edge.label_id) \notin DOMAIN cat.tables
          THEN Err("DuckDB")
          ELSE Ok(star_view(SetToSeq(cat.tables[original_table_name("star", edge.label_id)]),
                            edge.vertices[1])))
    ELSE IF edge.kind = "Path"
    THEN (IF original_table_name("path", edge.label_id) \notin DOMAIN cat.tables
          THEN Err("DuckDB")
          ELSE IF edge.vertices[1] # edge.vertices[2]
          THEN Ok(path_view(SetToSeq(cat.tables[original_table_name("path", edge.label_id)]),
                            edge.vertices[1], edge.vertices[2]))
          ELSE Ok(self_cycle_view(
                      SetToSeq({r \in cat.tables[original_table_name("path", edge.label_id)] :
                                   r.s = r.t}),
                      edge.vertices[1])))
    ELSE Err("panic")

\* A failure of the database; conn is the connection it leaves.
Failed(conn) == [ok |-> FALSE, err |-> "DuckDB", conn |-> conn]

\* execute_sql of "create temp view table_name as (..)": the view must be
\* new to the connection.
create_view(conn, table_name, rows) ==
    IF ~rows.ok THEN (IF rows.err = "panic" THEN rows ELSE Failed(conn))
    ELSE IF table_name \in conn.views THEN Failed(conn)
    ELSE Ok([conn |-> [conn EXCEPT !.views = @ \cup {table_name}], rows |-> rows.value])

create_temp_table(conn, edge, table_id) ==
    create_view(conn, <<IF edge.kind = "Star" THEN "temp_star" ELSE "temp_path", table_id>>,
                temp_view_rows(conn, edge))

created_temp_table(st, e, view) ==
    IF ~view.ok THEN view
    ELSE Ok([st EXCEPT !.conn = view.value.conn,
                       !.next_id = @ + 1,
                       !.edge_table_map = MapPut(@, e.tag_id, view.value.rows)])

RECURSIVE create_temp_tables(_, _)
\* The first loop of EstimateState::estimate: st holds the pattern, the
\* connection, the next id of the id generator, the edge_table_map (the rows
\* of the view of every edge) and the steps of the elimination so far.
create_temp_tables(st, es) ==
    IF es = <<>> \/ ~st.ok THEN st
    ELSE create_temp_tables(
             created_temp_table(st.value, Head(es),
                                create_temp_table(st.value.conn, Head(es), st.value.next_id)),
             Tail(es))

RECURSIVE from_clause(_)
\* The rows of "from t1, t2, ..": one row of every table.
from_clause(tables) ==
    IF tables = <<>> THEN <<<<>>>>
    ELSE Flatten([i \in DOMAIN Head(tables) |->
                     [j \in DOMAIN from_clause(Tail(tables)) |->
                         <<Head(tables)[i]>> \o from_clause(Tail(tables))[j]]])

\* The where clause: the tables that hold a vertex agree on it.
where_clause(es, c) ==
    \A i, j \in DOMAIN es :
        \A x \in Range(es[i].vertices) \cap Range(es[j].vertices) : c[i].v[x] = c[j].v[x]

multiplier(c, i, victim) ==
    Product([k \in 1..(Len(c) - 1) |-> c[IF k < i THEN k ELSE k + 1].mode[victim]])

new_count(c, victim) == Least({c[i].count * multiplier(c, i, victim) : i \in DOMAIN c})

\* The first of the tables that hold the vertex.
first_table(es, x) == SetMin({i \in DOMAIN es : x \in Range(es[i].vertices)})

build_match_statement(es, tables, victim, nbs) ==
    LET matched == SelectSeq(from_clause(tables), LAMBDA c : where_clause(es, c))
    IN  [m \in DOMAIN matched |->
            [v |-> [x \in Range(nbs) |-> matched[m][first_table(es, x)].v[x]],
             mode |-> [x \in Range(nbs) |->
                          matched[m][first_table(es, x)].mode[x]
                              * multiplier(matched[m], first_table(es, x), victim)],
             count |-> new_count(matched[m], victim)]]

build_agg_statement(rows, nbs) ==
    LET groups == SetToSeq({rows[i].v : i \in DOMAIN rows})
        of(g) == SelectSeq(rows, LAMBDA r : r.v = groups[g])
    IN  [g \in DOMAIN groups |->
            [v |-> groups[g],
             mode |-> [x \in Range(nbs) |->
                          SumSeq([i \in DOMAIN of(g) |-> of(g)[i].mode[x]])],
             count |-> SumSeq([i \in DOMAIN of(g) |-> of(g)[i].count])]]

\* The new edge as a general edge whatever the number of its vertices.
new_catalog_edge_general(tag_id, nbs) == CatalogEdge_general(tag_id, 0, nbs)

new_catalog_edge(tag_id, nbs) ==
    IF Len(nbs) = 1 THEN CatalogEdge_star(tag_id, 0, nbs[1])
    ELSE IF Len(nbs) = 2 THEN CatalogEdge_path(tag_id, 0, nbs[1], nbs[2])
    ELSE CatalogEdge_general(tag_id, 0, nbs)

\* The tail of eliminate_vertex: the view is created, the victim removed
\* and the new edge added.
eliminated(st, victim, new_edge, view) ==
    IF ~view.ok THEN view
    ELSE IF st.overflow_checks /\ next_edge_tag_id_overflows(st.pattern)
    THEN Err("attempt to add with overflow")
    ELSE IF new_edge.tag_id \in DOMAIN st.edge_table_map
    THEN Err("assertion failed: insert(..).is_none()")
    ELSE Ok([pattern |-> add_edge(remove_vertex(st.pattern, victim), new_edge).value,
             conn |-> view.value.conn,
             next_id |-> st.next_id + 1,
             overflow_checks |-> st.overflow_checks,
             edge_table_map |-> MapPut(st.edge_table_map, new_edge.tag_id, view.value.rows),
             steps |-> Append(st.steps,
                              [victim |-> victim, before |-> st.pattern,
                               after |-> add_edge(remove_vertex(st.pattern, victim),
                                                  new_edge).value])])

eliminate_vertex_with(st, victim, es, nbs, new_edge) ==
    IF nbs = <<>> THEN Err("panic")
    ELSE eliminated(
             st, victim, new_edge,
             create_view(st.conn, <<"temp_table", st.next_id>>,
                         Ok(build_agg_statement(
                                build_match_statement(
                                    es, [i \in DOMAIN es |-> st.edge_table_map[es[i].tag_id]],
                                    victim, nbs),
                                nbs))))

eliminate_vertex_edges(st, victim, es, nbs) ==
    eliminate_vertex_with(st, victim, es, nbs,
                          new_catalog_edge(catalog_next_edge_tag_id(st.pattern), nbs))

eliminate_vertex(st, vertex_tag_id) ==
    eliminate_vertex_edges(
        st, vertex_tag_id, incident_edges(st.pattern, vertex_tag_id),
        SortedSeq(UNION {Range(e.vertices) : e \in Range(incident_edges(st.pattern, vertex_tag_id))}
                  \ {vertex_tag_id}))

\* The neighbors choose_victim_vertex collects for a vertex: the vertices
\* of its incident edges, the vertex removed.
victim_neighbors(cp, x) ==
    UNION {Range(e.vertices) : e \in Range(incident_edges(cp, x))} \ {x}

\* One turn of the for loop of choose_victim_vertex: s holds victim and
\* min_neighbors, which is None for usize::MAX, above every count.
victim_step(s, tag_id, len) ==
    IF ~s.min_neighbors.some \/ len < s.min_neighbors.value
    THEN [victim |-> Some(tag_id), min_neighbors |-> Some(len)]
    ELSE IF len = s.min_neighbors.value
    THEN [s EXCEPT !.victim = IF ~@.some \/ tag_id < @.value THEN Some(tag_id) ELSE @]
    ELSE s

RECURSIVE choose_victim_loop(_, _, _)
choose_victim_loop(cp, vs, s) ==
    IF vs = <<>> THEN s
    ELSE choose_victim_loop(
             cp, Tail(vs),
             victim_step(s, Head(vs).tag_id,
                         Cardinality(victim_neighbors(cp, Head(vs).tag_id))))

\* The first vertex met, whatever its neighbors.
choose_victim_vertex_first(cp) == catalog_vertices(cp)[1].tag_id

choose_victim_vertex(cp) ==
    choose_victim_loop(cp, catalog_vertices(cp),
                       [victim |-> None, min_neighbors |-> None]).victim.value

build_finalize_statement(tables, vertex) ==
    IF Len(tables) = 1 THEN [i \in DOMAIN tables[1] |-> tables[1][i].count]
    ELSE LET matched == SelectSeq(from_clause(tables),
                            LAMBDA c : \A i \in 1..(Len(c) - 1) :
                                           c[i].v[vertex] = c[i + 1].v[vertex])
         IN  [m \in DOMAIN matched |-> new_count(matched[m], vertex)]

\* The tail of finalize: the view temp_result is created and read.
finalized(st, view) ==
    IF ~view.ok THEN view
    ELSE Ok([card |-> SumSeq(view.value.rows), conn |-> view.value.conn,
             next_id |-> st.next_id + 1, steps |-> st.steps, pattern |-> st.pattern])

finalize_tables(st, es, vertex) ==
    finalized(
        st,
        create_view(st.conn, <<"temp_result", st.next_id>>,
                    IF \E i \in DOMAIN es : vertex \notin Range(es[i].vertices)
                    THEN Err("DuckDB")
                    ELSE Ok(build_finalize_statement(
                                [i \in DOMAIN es |-> st.edge_table_map[es[i].tag_id]],
                                vertex))))

finalize(st) ==
    IF get_vertices_num(st.pattern) # 1 \/ get_edges_num(st.pattern) = 0 THEN Err("panic")
    ELSE finalize_tables(st, catalog_edges(st.pattern),
                         catalog_vertices(st.pattern)[1].tag_id)

RECURSIVE eliminate_loop(_)
\* The while loop of EstimateState::estimate and the call of finalize.
eliminate_loop(st) ==
    IF ~st.ok THEN st
    ELSE IF get_vertices_num(st.value.pattern) > 1
    THEN eliminate_loop(eliminate_vertex(st.value, choose_victim_vertex(st.value.pattern)))
    ELSE finalize(st.value)

RECURSIVE eliminate_in_order(_, _)
\* The for loop over the predefined order and the call of finalize.  The
\* loop breaks when one vertex is left; incident_edges(victim).unwrap()
\* panics for a victim the pattern does not hold.
eliminate_in_order(st, order) ==
    IF ~st.ok THEN st
    ELSE IF order = <<>> \/ get_vertices_num(st.value.pattern) <= 1 THEN finalize(st.value)
    ELSE IF Head(order) \notin DOMAIN st.value.pattern.adj_list THEN Err("panic")
    ELSE eliminate_in_order(eliminate_vertex(st.value, Head(order)), Tail(order))

eliminate_from(st, predefined_order) ==
    IF predefined_order.some THEN eliminate_in_order(st, predefined_order.value)
    ELSE eliminate_loop(st)

\* EstimateState::estimate under a predefined order or none, in a build
\* with overflow checks or without.
EstimateState_estimate_with(conn, cp, next_id, predefined_order, overflow_checks) ==
    IF get_vertices_num(cp) < 1 \/ get_edges_num(cp) < 1 THEN Err("panic")
    ELSE eliminate_from(
             create_temp_tables(
                 Ok([pattern |-> cp, conn |-> conn, next_id |-> next_id,
                     overflow_checks |-> overflow_checks,
                     edge_table_map |-> EmptyMap, steps |-> <<>>]),
                 catalog_edges(cp)),
             predefined_order)

\* EstimateState::estimate without an order: the card with the connection
\* and the next id it leaves, an error of the database or a panic.  The
\* edge tags of the patterns of the decomposer stay far below 255 here,
\* where the builds agree.
EstimateState_estimate(conn, cp, next_id) ==
    EstimateState_estimate_with(conn, cp, next_id, None, TRUE)

(***************************************************************************)
(* estimate/mod.rs: CardinalityEstimator.                                  *)
(***************************************************************************)
CardinalityEstimator_new(cat, max_path_length, max_star_length, max_star_degree, limit, disable_star, disable_prune, disable_cyclic) ==
    [catalog |-> cat, max_path_length |-> max_path_length,
     max_star_length |-> max_star_length, max_star_degree |-> max_star_degree,
     limit |-> limit, disable_star |-> disable_star, disable_prune |-> disable_prune,
     disable_cyclic |-> disable_cyclic]

\* One step of try_collect: the card of the next pattern is appended unless
\* it is an error or a panic.
\* The connection of the catalog as the join engine sees it.
Connection(cat) == [tables |-> cat.tables, views |-> cat.views]

collect_card(acc, r) ==
    IF ~r.ok THEN r
    ELSE Ok([cards |-> Append(acc.cards, r.value.card), conn |-> r.value.conn,
             next_id |-> r.value.next_id,
             runs |-> Append(acc.runs, [steps |-> r.value.steps, left |-> r.value.pattern])])

RECURSIVE collect_cards(_, _)
\* join::estimate for every pattern in turn, up to the first failure.
collect_cards(patterns, acc) ==
    IF patterns = <<>> \/ ~acc.ok THEN acc
    ELSE collect_cards(Tail(patterns),
                       collect_card(acc.value,
                                    EstimateState_estimate(
                                        acc.value.conn, Head(patterns).catalog_pattern,
                                        acc.value.next_id)))

\* The least of the cards by total_cmp, and the catalog with its next table
\* id moved past the ids drawn; after a failure the catalog keeps its next
\* table id.  The views created stay in the connection.
min_card(est, cards) ==
    IF ~cards.ok
    THEN [card |-> Err(cards.err), runs |-> <<>>,
          catalog |-> IF cards.err = "DuckDB"
                      THEN [est.catalog EXCEPT !.views = cards.conn.views]
                      ELSE est.catalog]
    ELSE [card |-> Ok(Least(Range(cards.value.cards))), runs |-> cards.value.runs,
          catalog |-> [est.catalog EXCEPT !.next_table_id = cards.value.next_id,
                                          !.views = cards.value.conn.views]]

estimate_patterns(est, patterns) ==
    IF ~patterns.ok \/ patterns.value = <<>>
    THEN [card |-> Err("panic"), runs |-> <<>>, catalog |-> est.catalog]
    ELSE min_card(est, collect_cards(
                           patterns.value,
                           Ok([cards |-> <<>>, conn |-> Connection(est.catalog),
                               next_id |-> est.catalog.next_table_id, runs |-> <<>>])))

\* The patterns of the decomposer, as estimate hands them to the join engine.
estimate_decompose(est, p) ==
    decompose(HeuristicDecomposer_new(est.catalog, est.max_path_length, est.max_star_length,
                                      est.max_star_degree, est.limit, est.disable_star,
                                      est.disable_prune, est.disable_cyclic),
              p)

\* CardinalityEstimator::estimate: the card (a value, an error or a panic)
\* and the catalog after the call.
CardinalityEstimator_estimate(est, p) == estimate_patterns(est, estimate_decompose(est, p))

(***************************************************************************)
(* Estimator specification: a catalog is built from a graph of the schema  *)
(* and its bucket map, and one query is estimated under one configuration  *)
(* of the estimator, whose lengths and degree are those of the builder.    *)
(***************************************************************************)
MaxEstimateEdges == 2

MaxLimit == 4

Query(labels, edges) ==
    to_general(RawPattern([i \in DOMAIN labels |-> PatternVertex(i - 1, labels[i])],
                          [i \in DOMAIN edges |->
                              PatternEdge(i - 1, edges[i][1], edges[i][2], 0)])).pattern

\* The queries by the labels of their vertices and the ends of their edges:
\* the single edge under its two assignments of tags, the path and the fork
\* of two edges, the triangle and the clique of four vertices.
EdgeShapes(sch) ==
    IF sch = LoopSchema
    THEN {[labels |-> <<0, 0>>, edges |-> <<<<0, 1>>>>],
          [labels |-> <<0, 0>>, edges |-> <<<<1, 0>>>>]}
    ELSE {[labels |-> <<0, 1>>, edges |-> <<<<0, 1>>>>],
          [labels |-> <<1, 0>>, edges |-> <<<<1, 0>>>>]}

PathShape == [labels |-> <<0, 0, 0>>, edges |-> <<<<0, 1>>, <<1, 2>>>>]

ForkShape == [labels |-> <<0, 0, 0>>, edges |-> <<<<0, 1>>, <<0, 2>>>>]

TriangleShape == [labels |-> <<0, 0, 0>>, edges |-> <<<<0, 1>>, <<1, 2>>, <<2, 0>>>>]

CliqueShape ==
    [labels |-> <<0, 0, 0, 0>>,
     edges |-> <<<<0, 1>>, <<0, 2>>, <<0, 3>>, <<1, 2>>, <<1, 3>>, <<2, 3>>>>]

\* An edge from label 1 to label 0, which TwoLabelSchema does not have: no
\* path and no star of the catalog has its code.
ReversedEdgeShape == [labels |-> <<1, 0>>, edges |-> <<<<0, 1>>>>]

QueryShapes(sch) ==
    IF sch = LoopSchema
    THEN EdgeShapes(sch) \cup {PathShape, ForkShape, TriangleShape, CliqueShape}
    ELSE EdgeShapes(sch) \cup {ReversedEdgeShape}

Queries(sch) == {Query(q.labels, q.edges) : q \in QueryShapes(sch)}

EstimateGraphs(sch) ==
    {g \in InputGraphs(sch) :
        \A l \in SchemaEdgeLabels(sch) : get_num_edges(g, l) <= MaxEstimateEdges}

\* The first vertex of every label lies in bucket 0.
EstimateBucketMaps(sch) ==
    {bm \in InputBucketMaps(sch) :
        \A l \in SchemaVertexLabels(sch) : bm[l][GraphVertexIds(sch, l)[1]] = 0}

InitEstimate ==
    /\ schema \in InputSchemas
    /\ graph \in EstimateGraphs(schema)
    /\ bucket_map \in EstimateBucketMaps(schema)
    /\ catalog = None
    /\ call = None
    /\ result = None
    /\ dir = Idle
    /\ binner = Idle /\ rerun = Idle
    /\ bucket_value_lists = Idle /\ bucket_values_mutex = Idle /\ pending = Idle /\ workers = Idle
    /\ statistics = Idle
    /\ pattern = Idle /\ other = Idle /\ code = Idle /\ otherCode = Idle /\ relation = Idle

\* CatalogBuilder::build
BuildCatalog ==
    /\ ~catalog.some
    /\ catalog' = Some(CatalogBuilder_build(
                           StatisticsAnalyzer_new(graph, schema, bucket_map, NumBuckets,
                                                  MaxPathLength, MaxStarLength,
                                                  MaxStarDegree)))
    /\ UNCHANGED <<workerVars, binVars, schema, graph, bucket_map, statistics, call, result, dir, patternVars>>

EstimateEffect(p, est, patterns, r) ==
    /\ call' = Some([pattern |-> p, limit |-> est.limit, disable_star |-> est.disable_star,
                     disable_prune |-> est.disable_prune,
                     disable_cyclic |-> est.disable_cyclic])
    /\ result' = Some([patterns |-> patterns, card |-> r.card, runs |-> r.runs])
    /\ catalog' = Some(Ok(r.catalog))

EstimateWith(p, est, patterns) ==
    EstimateEffect(p, est, patterns, estimate_patterns(est, patterns))

\* CardinalityEstimator::new(..).estimate(pattern); the patterns of the
\* decomposer are kept next to the card.
Estimate ==
    /\ catalog.some
    /\ catalog.value.ok
    /\ ~result.some
    /\ \E p \in Queries(schema), limit \in 0..MaxLimit,
          disable_star \in BOOLEAN, disable_prune \in BOOLEAN, disable_cyclic \in BOOLEAN :
          EstimateWith(
              p,
              CardinalityEstimator_new(catalog.value.value, MaxPathLength, MaxStarLength,
                                       MaxStarDegree, limit, disable_star, disable_prune,
                                       disable_cyclic),
              estimate_decompose(
                  CardinalityEstimator_new(catalog.value.value, MaxPathLength, MaxStarLength,
                                           MaxStarDegree, limit, disable_star, disable_prune,
                                           disable_cyclic),
                  p))
    /\ UNCHANGED <<workerVars, binVars, schema, graph, bucket_map, statistics, dir, patternVars>>

NextEstimate == BuildCatalog \/ Estimate

SpecEstimate == InitEstimate /\ [][NextEstimate]_vars

(***************************************************************************)
(* The decomposer, the join engine and the estimator under SpecEstimate.   *)
(***************************************************************************)
\* The hyperedges of a decomposition whose segments hold the edge e.
Covering(dec, e) ==
    {i \in DOMAIN dec.segments :
        \E j \in DOMAIN dec.segments[i] : e \in Range(dec.segments[i][j].edges)}

\* The decompositions the decomposer returned to the last estimate.
Returned ==
    IF result.some /\ result.value.patterns.ok THEN Range(result.value.patterns.value)
    ELSE {}

\* The last estimate was called with a query of this shape.
Called(shape) == call.some /\ call.value.pattern = Query(shape.labels, shape.edges)

CalledCyclic == call.some /\ is_cyclic(call.value.pattern)

\* C1: in every decomposition decompose returns for a query with at least
\* one edge, every edge of the query belongs to the segments of exactly one
\* hyperedge.
C1_EveryEdgeInOneHyperedge ==
    \A dec \in Returned :
        \A e \in EdgeTags(call.value.pattern) : Cardinality(Covering(dec, e)) = 1

\* C1 as the code has it: a decomposition is made of the query, of a spanning
\* tree of it or of the pruned query; every edge of the pattern decomposed
\* belongs to the segments of exactly one hyperedge and the other edges of
\* the query to none.  An acyclic query and a cycle through a pivot are
\* decomposed whole; a spanning tree keeps one edge less than the query has
\* vertices.
C1_DecomposedEdgesCoveredOnce ==
    \A dec \in Returned :
        /\ dec.decomposed \subseteq EdgeTags(call.value.pattern)
        /\ ~CalledCyclic => dec.decomposed = EdgeTags(call.value.pattern)
        /\ \/ dec.decomposed = EdgeTags(call.value.pattern)
           \/ Cardinality(dec.decomposed) = Len(call.value.pattern.vertices) - 1
           \/ ~call.value.disable_cyclic /\ ~call.value.disable_prune
        /\ \A e \in EdgeTags(call.value.pattern) :
              Cardinality(Covering(dec, e)) = IF e \in dec.decomposed THEN 1 ELSE 0

\* A triangle estimated with spanning trees and pivots: a spanning tree
\* leaves its chord out, the cycle through a pivot is cut in two segments.
C1_Witness ==
    /\ Called(TriangleShape)
    /\ result.value.patterns.ok
    /\ \E dec \in Returned : dec.decomposed # EdgeTags(call.value.pattern)
    /\ \E dec \in Returned :
          /\ dec.decomposed = EdgeTags(call.value.pattern)
          /\ Len(dec.segments) = 2

\* The query is one path of at most MaxPathLength edges that the decomposer
\* translates as a path, and the catalog holds its shape with all-zero
\* statistics.
EmptyPathQuery ==
    /\ call.some
    /\ call.value.disable_star
    /\ call.value.pattern.edges # <<>>
    /\ Len(call.value.pattern.edges) <= MaxPathLength
    /\ to_path(RawPattern(call.value.pattern.vertices, call.value.pattern.edges)).ok
    /\ get_path_label_id(
           catalog.value.value,
           encode(to_path(RawPattern(call.value.pattern.vertices,
                                     call.value.pattern.edges)).pattern)) > SentinelLabel

\* A returned decomposition has a hyperedge of a shape with all-zero
\* statistics.
EmptyShapeUsed ==
    \E dec \in Returned :
        \E e \in Range(dec.catalog_pattern.edges) : e.label_id > SentinelLabel

\* C2: an estimate whose decomposition uses a path or a star stored with
\* all-zero statistics completes and yields the cardinality 0.
C2_EmptyShapeEstimatesZero ==
    (EmptyPathQuery \/ EmptyShapeUsed) => result.value.card = Ok(0)

\* The star half of C2: when a returned decomposition has a hyperedge of an
\* empty shape, the estimate is 0.
EmptyShapeUsedEstimatesZero == EmptyShapeUsed => result.value.card = Ok(0)

\* Every edge of the query is an edge of the schema.
InSchema(p) ==
    \A e \in Range(p.edges) :
        \E se \in Range(schema.edges) :
            /\ se.label = e.label_id
            /\ se.from = LabelOf(p, e.src)
            /\ se.to = LabelOf(p, e.dst)

\* C8: the estimate of a query of one edge of the schema between two distinct
\* vertices is get_num_edges of the label of the edge, under both
\* assignments of the tags and with the stars enabled or disabled.
C8_SingleEdgeExact ==
    (/\ call.some
     /\ Len(call.value.pattern.edges) = 1
     /\ call.value.pattern.edges[1].src # call.value.pattern.edges[1].dst
     /\ InSchema(call.value.pattern))
        => result.value.card
               = Ok(get_num_edges(graph, call.value.pattern.edges[1].label_id))

\* The cards of the join engine for the patterns returned.
JoinCards ==
    collect_cards(result.value.patterns.value,
                  Ok([cards |-> <<>>, conn |-> Connection(catalog.value.value),
                      next_id |-> catalog.value.value.next_table_id, runs |-> <<>>]))

\* C9: for a triangle with limit L and disable_cyclic = false, decompose
\* returns min(L, 3) spanning-tree decompositions and one decomposition for
\* every vertex as the pivot, and the estimate is the least of the cards of
\* the join engine for these patterns.
C9_CycleDecompositions ==
    (Called(TriangleShape) /\ ~call.value.disable_cyclic)
        => /\ result.value.patterns.ok
           /\ Len(result.value.patterns.value)
                  = (IF call.value.limit < 3 THEN call.value.limit ELSE 3) + 3
           /\ JoinCards.ok
           /\ result.value.card = Ok(Least(Range(JoinCards.value.cards)))

\* C9 where the decomposer does not panic.
CycleDecompositionsUnlessPanic ==
    (Called(TriangleShape) /\ ~call.value.disable_cyclic /\ result.value.patterns.ok)
        => /\ Len(result.value.patterns.value)
                  = (IF call.value.limit < 3 THEN call.value.limit ELSE 3) + 3
           /\ JoinCards.ok
           /\ result.value.card = Ok(Least(Range(JoinCards.value.cards)))

\* C10: the estimate of a cyclic pattern with disable_cyclic = true and
\* limit = 0 returns 0 or an error value; it never returns another
\* cardinality.
C10_ZeroOrError ==
    (CalledCyclic /\ call.value.disable_cyclic /\ call.value.limit = 0)
        => \/ result.value.card = Ok(0)
           \/ ~result.value.card.ok /\ result.value.card.err # "panic"

\* C10 without the value returned: no cardinality other than 0 comes back.
NoCardWithoutPatterns ==
    (CalledCyclic /\ call.value.disable_cyclic /\ call.value.limit = 0)
        => result.value.card = Err("panic")

\* The query is one path that the decomposer translates as a path, and the
\* catalog has no label id for its code.
AbsentPathQuery ==
    /\ call.some
    /\ call.value.disable_star
    /\ call.value.pattern.edges # <<>>
    /\ Len(call.value.pattern.edges) <= MaxPathLength
    /\ to_path(RawPattern(call.value.pattern.vertices, call.value.pattern.edges)).ok
    /\ get_path_label_id(
           catalog.value.value,
           encode(to_path(RawPattern(call.value.pattern.vertices,
                                     call.value.pattern.edges)).pattern)) = NoLabel

\* The query is one edge that the decomposer translates as a star, and the
\* catalog has no label id for its code under any rank of the center.
AbsentStarQuery ==
    /\ call.some
    /\ ~call.value.disable_star
    /\ Len(call.value.pattern.edges) = 1
    /\ \A rank \in 0..1 :
          get_star_label_id(catalog.value.value, rank, encode(call.value.pattern)) = NoLabel

\* The catalog is as CatalogBuilder::build left it.
CatalogAsBuilt ==
    /\ catalog.value.value.views = {}
    /\ catalog.value.value.next_table_id = 0

\* C11: when the decomposition needs a path or a star the catalog has no
\* label id for, estimate returns an error value, it does not abort, and the
\* catalog is left unchanged.
C11_AbsentShapeIsAnError ==
    (AbsentPathQuery \/ AbsentStarQuery)
        => /\ ~result.value.card.ok
           /\ result.value.card.err # "panic"
           /\ CatalogAsBuilt

\* What the code does for an absent shape: it aborts.
AbsentShapePanics ==
    (AbsentPathQuery \/ AbsentStarQuery) => result.value.card = Err("panic") /\ CatalogAsBuilt

\* The absent shape of the bounds: the edge TwoLabelSchema does not have.
AbsentShapeReached ==
    /\ Called(ReversedEdgeShape)
    /\ AbsentPathQuery \/ AbsentStarQuery

\* estimate returned to its caller, with a cardinality or with an error.
EstimateReturned ==
    /\ result.some
    /\ result.value.card.ok \/ result.value.card.err # "panic"

\* C12: after estimate returns, with a cardinality or with an error, none of
\* the temporary views it created remains in the connection of the catalog.
C12_NoTempViewLeft == EstimateReturned => catalog.value.value.views = {}

\* What the code does: every id drawn names one view, and every one of these
\* views is still in the connection when estimate returns.
TempViewsKept ==
    EstimateReturned
        => /\ Cardinality(catalog.value.value.views) = catalog.value.value.next_table_id
           /\ {v[2] : v \in catalog.value.value.views}
                  = 0..(catalog.value.value.next_table_id - 1)
           /\ catalog.value.value.next_table_id > 0

\* The join engine never fails in the database.
NoDatabaseError == result.some => (result.value.card.ok \/ result.value.card.err = "panic")

\* The hyperedges of a catalog pattern that hold the vertex, and the other
\* vertices they hold.
EdgesAt(cp, x) == {e \in Range(catalog_edges(cp)) : x \in Range(e.vertices)}

NeighbourTags(cp, x) == UNION {Range(e.vertices) : e \in EdgesAt(cp, x)} \ {x}

CatalogVertexTags(cp) == {v.tag_id : v \in Range(catalog_vertices(cp))}

\* One step of the elimination: the victim and its hyperedges are removed
\* and one hyperedge over the neighbours of the victim is added.
StepReplaces(step) ==
    LET added == Range(catalog_edges(step.after)) \ Range(catalog_edges(step.before))
        nbs == NeighbourTags(step.before, step.victim)
    IN  /\ step.victim \in CatalogVertexTags(step.before)
        /\ CatalogVertexTags(step.after) = CatalogVertexTags(step.before) \ {step.victim}
        /\ Range(catalog_edges(step.before)) \ Range(catalog_edges(step.after))
               = EdgesAt(step.before, step.victim)
        /\ Cardinality(added) = 1
        /\ nbs # {}
        /\ \A e \in added :
              /\ e.tag_id \notin {b.tag_id : b \in Range(step.before.edges)}
              /\ Range(e.vertices) = nbs
              /\ Len(e.vertices) = Cardinality(nbs)
              /\ e.kind = IF Cardinality(nbs) = 1 THEN "Star"
                          ELSE IF Cardinality(nbs) = 2 THEN "Path" ELSE "General"

\* The run of the join engine on the i-th pattern returned by the decomposer.
RunOf(i) == result.value.runs[i]

\* C20: for every CatalogPattern of the decomposer the elimination loop ends
\* after exactly |V| - 1 eliminations with one vertex and at least one
\* hyperedge left; every step removes the victim and its incident hyperedges
\* and adds one hyperedge, a Star, a Path or a General, over the non-empty
\* set of the neighbours of the victim.
C20_EliminationReplaces ==
    (result.some /\ result.value.patterns.ok /\ result.value.patterns.value # <<>>)
        => /\ result.value.card.ok
           /\ Len(result.value.runs) = Len(result.value.patterns.value)
           /\ \A i \in DOMAIN result.value.runs :
                 LET cp == result.value.patterns.value[i].catalog_pattern
                 IN  /\ Len(RunOf(i).steps) = get_vertices_num(cp) - 1
                     /\ get_vertices_num(RunOf(i).left) = 1
                     /\ get_edges_num(RunOf(i).left) >= 1
                     /\ \A k \in DOMAIN RunOf(i).steps :
                           /\ StepReplaces(RunOf(i).steps[k])
                           /\ RunOf(i).steps[k].before
                                  = IF k = 1 THEN cp ELSE RunOf(i).steps[k - 1].after
                     /\ RunOf(i).left
                            = IF RunOf(i).steps = <<>> THEN cp
                              ELSE RunOf(i).steps[Len(RunOf(i).steps)].after

\* A run of three eliminations that adds a hyperedge of every kind.
C20_Witness ==
    /\ result.some
    /\ result.value.card.ok
    /\ \E i \in DOMAIN result.value.runs :
          /\ Len(RunOf(i).steps) = 3
          /\ \A kind \in {"Star", "Path", "General"} :
                \E k \in DOMAIN RunOf(i).steps :
                    \E e \in Range(catalog_edges(RunOf(i).steps[k].after)) :
                        /\ e \notin Range(catalog_edges(RunOf(i).steps[k].before))
                        /\ e.kind = kind

\* C8 where the path of the edge is not an empty shape translated as a path.
SingleEdgeExactUnlessEmptyPath ==
    (/\ call.some
     /\ Len(call.value.pattern.edges) = 1
     /\ call.value.pattern.edges[1].src # call.value.pattern.edges[1].dst
     /\ InSchema(call.value.pattern)
     /\ ~EmptyPathQuery)
        => result.value.card
               = Ok(get_num_edges(graph, call.value.pattern.edges[1].label_id))


(***************************************************************************)
(* Raw pattern specification: a raw pattern is built from RawPattern::new  *)
(* with push_back_vertex and push_back_edge, which check nothing, and is   *)
(* converted with to_general or to_path at any point.  A push forgets the  *)
(* last conversion.                                                        *)
(***************************************************************************)
MaxRawVertices == 3

MaxRawEdges == 2

MaxRawTag == 2

RawTags == 0..MaxRawTag

RawEdgeTags == 0..(MaxRawEdges - 1)

RawPattern_new == RawPattern(<<>>, <<>>)

push_back_vertex(raw, vertex) == [raw EXCEPT !.vertices = Append(@, vertex)]

push_back_edge(raw, edge) == [raw EXCEPT !.edges = Append(@, edge)]

InitRaw ==
    /\ catalog = Idle /\ dir = Idle /\ schema = Idle /\ graph = Idle
    /\ binner = Idle /\ rerun = Idle
    /\ bucket_value_lists = Idle /\ bucket_values_mutex = Idle /\ pending = Idle /\ workers = Idle
    /\ bucket_map = Idle /\ statistics = Idle
    /\ other = Idle /\ code = Idle /\ otherCode = Idle /\ relation = Idle
    /\ pattern = RawPattern_new
    /\ call = None
    /\ result = None

PushBackVertex ==
    /\ Len(pattern.vertices) < MaxRawVertices
    /\ \E tag_id \in RawTags, label_id \in VertexLabels :
          pattern' = push_back_vertex(pattern, PatternVertex(tag_id, label_id))
    /\ call' = None
    /\ result' = None
    /\ UNCHANGED <<workerVars, binVars, other, code, otherCode, relation, catalog, dir, statsVars>>

PushBackEdge ==
    /\ Len(pattern.edges) < MaxRawEdges
    /\ \E tag_id \in RawEdgeTags, src \in RawTags, dst \in RawTags, label_id \in EdgeLabels :
          pattern' = push_back_edge(pattern, PatternEdge(tag_id, src, dst, label_id))
    /\ call' = None
    /\ result' = None
    /\ UNCHANGED <<workerVars, binVars, other, code, otherCode, relation, catalog, dir, statsVars>>

ToGeneral ==
    /\ ~call.some
    /\ call' = Some("to_general")
    /\ result' = Some(to_general(pattern))
    /\ UNCHANGED <<workerVars, binVars, pattern, other, code, otherCode, relation, catalog, dir, statsVars>>

ToPath ==
    /\ ~call.some
    /\ call' = Some("to_path")
    /\ result' = Some(to_path(pattern))
    /\ UNCHANGED <<workerVars, binVars, pattern, other, code, otherCode, relation, catalog, dir, statsVars>>

NextRaw == PushBackVertex \/ PushBackEdge \/ ToGeneral \/ ToPath

SpecRaw == InitRaw /\ [][NextRaw]_vars

\* The four defects of a raw pattern that to_general names.
SharedVertexTag(raw) ==
    \E i, j \in DOMAIN raw.vertices : i # j /\ raw.vertices[i].tag_id = raw.vertices[j].tag_id

SharedEdgeTag(raw) ==
    \E i, j \in DOMAIN raw.edges : i # j /\ raw.edges[i].tag_id = raw.edges[j].tag_id

MissingEndpoint(raw) ==
    \E i \in DOMAIN raw.edges :
        \/ \A j \in DOMAIN raw.vertices : raw.vertices[j].tag_id # raw.edges[i].src
        \/ \A j \in DOMAIN raw.vertices : raw.vertices[j].tag_id # raw.edges[i].dst

\* The vertices an undirected walk over the edges reaches from the tags in
\* seen, computed without the adjacency lists of the pattern.
RECURSIVE Component(_, _)
Component(raw, seen) ==
    LET more == seen \cup {e.dst : e \in {x \in Range(raw.edges) : x.src \in seen}}
                     \cup {e.src : e \in {x \in Range(raw.edges) : x.dst \in seen}}
    IN  IF more = seen THEN seen ELSE Component(raw, more)

Disconnected(raw) ==
    \E i, j \in DOMAIN raw.vertices :
        raw.vertices[j].tag_id \notin Component(raw, {raw.vertices[i].tag_id})

Defective(raw) ==
    \/ SharedVertexTag(raw)
    \/ SharedEdgeTag(raw)
    \/ MissingEndpoint(raw)
    \/ Disconnected(raw)

\* Every vertex and every edge of the pattern returned has a rank: the two
\* assertions at the end of pattern_ranking hold.
Ranked(g) ==
    /\ g.vertices = pattern.vertices
    /\ g.edges = pattern.edges
    /\ DOMAIN g.vertex_rank_map = VertexTags(pattern)
    /\ DOMAIN g.edge_rank_map = EdgeTags(pattern)
    /\ \A t \in VertexTags(pattern) : g.vertex_rank_map[t] \in 0..(Len(pattern.vertices) - 1)
    /\ \A t \in EdgeTags(pattern) : g.edge_rank_map[t] \in 0..(Len(pattern.edges) - 1)

\* C17: to_general returns an error when two vertices share a tag, two edges
\* share a tag, an edge names an endpoint that is not a vertex of the
\* pattern, or the pattern is not connected, and it returns the pattern,
\* every vertex and edge ranked, in every other case.
C17_ToGeneralErrors ==
    (call.some /\ call.value = "to_general")
        => IF Defective(pattern)
           THEN ~result.value.ok /\ result.value.err # "panic"
           ELSE result.value.ok /\ Ranked(result.value.pattern)

\* to_general has returned a pattern of three vertices and two edges.
C17_PatternReturned ==
    /\ call.some /\ call.value = "to_general"
    /\ result.value.ok
    /\ Len(pattern.vertices) = MaxRawVertices
    /\ Len(pattern.edges) = MaxRawEdges

\* to_general has refused a pattern with an edge whose only defect is that
\* it is not connected.
C17_Witness ==
    /\ call.some /\ call.value = "to_general"
    /\ Disconnected(pattern)
    /\ ~SharedVertexTag(pattern) /\ ~SharedEdgeTag(pattern) /\ ~MissingEndpoint(pattern)
    /\ pattern.edges # <<>>
    /\ ~result.value.ok


\* The number of edge ends at the vertex tag_id: a self-loop counts twice.
Degree(raw, tag_id) ==
    Cardinality({i \in DOMAIN raw.edges : raw.edges[i].src = tag_id})
        + Cardinality({i \in DOMAIN raw.edges : raw.edges[i].dst = tag_id})

\* A path as the specification defines it: every vertex has degree at most 2
\* and exactly two have degree 1, or there is one vertex of degree 0.
PathShaped(raw) ==
    \/ /\ \A i \in DOMAIN raw.vertices : Degree(raw, raw.vertices[i].tag_id) <= 2
       /\ Cardinality({i \in DOMAIN raw.vertices :
                          Degree(raw, raw.vertices[i].tag_id) = 1}) = 2
    \/ /\ Len(raw.vertices) = 1
       /\ Degree(raw, raw.vertices[1].tag_id) = 0

\* C18: to_path returns a path pattern only for a pattern in which every
\* vertex has degree at most 2 and exactly two vertices have degree 1, or
\* which is a single vertex of degree 0; every other input yields an error.
C18_ToPathOnlyPaths ==
    (call.some /\ call.value = "to_path")
        => IF PathShaped(pattern) THEN result.value.ok \/ result.value.err # "panic"
           ELSE ~result.value.ok /\ result.value.err # "panic"

\* What to_path does check: the pattern passes to_general and its edges, in
\* list order, are a walk from the first vertex of the list to the last; a
\* walk may pass a vertex more than once.
ToPathAcceptsWalks ==
    (call.some /\ call.value = "to_path")
        => IF /\ ~Defective(pattern)
              /\ pattern.vertices # <<>>
              /\ \E at \in [0..Len(pattern.edges) -> RawTags] :
                    /\ at[0] = pattern.vertices[1].tag_id
                    /\ at[Len(pattern.edges)] = pattern.vertices[Len(pattern.vertices)].tag_id
                    /\ \A i \in DOMAIN pattern.edges :
                          \/ pattern.edges[i].src = at[i - 1] /\ pattern.edges[i].dst = at[i]
                          \/ pattern.edges[i].dst = at[i - 1] /\ pattern.edges[i].src = at[i]
           THEN result.value.ok
           ELSE ~result.value.ok /\ result.value.err # "panic"

\* to_path has returned a path for one vertex with a self-loop.
SelfLoopPathReached ==
    /\ call.some /\ call.value = "to_path"
    /\ result.value.ok
    /\ Len(pattern.vertices) = 1
    /\ Len(pattern.edges) = 1


(***************************************************************************)
(* Export and import under SpecCatalog.                                    *)
(***************************************************************************)
\* The arguments the getters are compared on: the codes of the input shapes
\* and of the shapes stored, and the label ids around both halves of the
\* label space.
ArgCodes(a, b) ==
    {encode(p) : p \in InputPaths}
        \cup DOMAIN a.metadata.path_label_map \cup DOMAIN b.metadata.path_label_map
        \cup {k[2] : k \in DOMAIN a.metadata.star_label_map}
        \cup {k[2] : k \in DOMAIN b.metadata.star_label_map}

ArgLabels ==
    (0..(MaxCatalogShapes + 1)) \cup (SentinelLabel..(SentinelLabel + MaxCatalogShapes + 2))

\* The stored path_ and star_ tables of a catalog.
StatTables(cat) ==
    [n \in {m \in DOMAIN cat.tables : m[1] \in {"path", "star"}} |-> cat.tables[n]]

\* The catalogs a and b answer every getter alike and hold the same rows.
SameAnswers(a, b) ==
    /\ \A c \in ArgCodes(a, b) :
          /\ get_path_label_id(a, c) = get_path_label_id(b, c)
          /\ \A rank \in 0..MaxCatalogPathLength :
                get_star_label_id(a, rank, c) = get_star_label_id(b, rank, c)
    /\ \A l \in ArgLabels :
          /\ get_path(a, l) = get_path(b, l)
          /\ get_star(a, l) = get_star(b, l)
          /\ get_edge_count(a, l) = get_edge_count(b, l)
    /\ StatTables(a) = StatTables(b)

\* C13: for every catalog reached by add_path, add_star and add_edge_count
\* calls, export followed by import yields a catalog that answers
\* get_path_label_id, get_path, get_star_label_id, get_star and
\* get_edge_count as the original does for every argument, and whose path_
\* and star_ tables hold the same rows.
C13_ExportImportRoundTrip ==
    [][(call.op = "export" /\ call'.op = "import")
          => /\ result' = Ok(0)
             /\ SameAnswers(catalog, catalog')]_vars

\* A catalog with a path and a star, one of them with a table of its own,
\* has been imported from the directory it was exported to: the statistics
\* lists are those of a fresh import.
C13_Witness ==
    /\ call.op = "import"
    /\ result = Ok(0)
    /\ dir.some
    /\ dir.value.metadata = serialize_metadata(catalog.metadata)
    /\ dir.value.data = catalog.tables
    /\ dir.value.path_stats \o dir.value.star_stats # <<>>
    /\ catalog.path_statistics = <<>> /\ catalog.star_statistics = <<>>
    /\ Len(catalog.metadata.paths) >= 1
    /\ Len(catalog.metadata.stars) >= 1
    /\ DOMAIN catalog.metadata.edge_count_map # {}


(***************************************************************************)
(* The tables behind the label ids under SpecCatalog.                      *)
(***************************************************************************)
\* The statistics of an add_path or add_star call have a count that is not 0.
HasCount(cl) ==
    IF cl.op = "add_path"
    THEN \E i \in DOMAIN cl.stats.count :
            \E j \in DOMAIN cl.stats.count[i] : cl.stats.count[i][j] # 0
    ELSE \E i \in DOMAIN cl.stats.count : cl.stats.count[i] # 0

TablePrefix(cl) == IF cl.op = "add_path" THEN "path" ELSE "star"

\* The table create_temp_table reads for the label id: before is the
\* catalog before the call, after the one it leaves.
TableBehind(cl, label_id, before, after) ==
    /\ original_table_name(TablePrefix(cl), label_id) \in DOMAIN after.tables
    /\ IF HasCount(cl)
       THEN /\ original_table_name(TablePrefix(cl), label_id) = <<TablePrefix(cl), label_id>>
            /\ <<TablePrefix(cl), label_id>> \notin DOMAIN before.tables
            /\ DOMAIN after.tables = DOMAIN before.tables \cup {<<TablePrefix(cl), label_id>>}
            /\ after.tables[<<TablePrefix(cl), label_id>>] # {}
       ELSE /\ original_table_name(TablePrefix(cl), label_id)
                  = <<TablePrefix(cl), SentinelLabel>>
            /\ <<TablePrefix(cl), SentinelLabel>> \in DOMAIN DuckCatalog_init.tables
            /\ after.tables = before.tables

\* C14: for every label id add_path or add_star returns, the table the join
\* engine reads for a hyperedge of that label id exists: path_{id} or
\* star_{id}, created by that call, when the statistics had a count that is
\* not 0, and the sentinel table of init when all counts are 0, in which
\* case the call creates no table.
C14_TableBehindEveryLabel ==
    [][(call'.op \in {"add_path", "add_star"} /\ result'.ok)
          => TableBehind(call', result'.value, catalog, catalog')]_vars

\* A shape with all-zero statistics has been added to a catalog that holds
\* a table of its own for a shape added before.
C14_Witness ==
    /\ call.op \in {"add_path", "add_star"}
    /\ result.ok
    /\ ~HasCount(call)
    /\ result.value > SentinelLabel
    /\ \E n \in DOMAIN catalog.tables : n[2] < SentinelLabel


(***************************************************************************)
(* The statistics the catalog builder computes, under SpecEstimate: the    *)
(* catalog keeps every path and star statistic with a count that is not 0. *)
(***************************************************************************)
BuiltPathStatistics ==
    IF catalog.some /\ catalog.value.ok THEN Range(catalog.value.value.path_statistics)
    ELSE {}

BuiltStarStatistics ==
    IF catalog.some /\ catalog.value.ok THEN Range(catalog.value.value.star_statistics)
    ELSE {}

\* C16: in every computed statistic each max-degree entry is at most the
\* count entry of the same cell: start_max_degree[s][t] <= count[s][t] and
\* end_max_degree[s][t] <= count[s][t] for every path and all buckets s, t,
\* and max_degree[b] <= count[b] for every star and bucket b.
C16_MaxDegreeAtMostCount ==
    /\ \A st \in BuiltPathStatistics :
          \A s, t \in Buckets :
              /\ st.start_max_degree[s][t] <= st.count[s][t]
              /\ st.end_max_degree[s][t] <= st.count[s][t]
    /\ \A st \in BuiltStarStatistics :
          \A b \in Buckets : st.max_degree[b] <= st.count[b]

\* The same for the path statistics of every graph of SpecStats, the paths
\* with all-zero counts included.
PathMaxDegreeAtMostCount ==
    (statistics.some /\ statistics.value.ok)
        => \A c \in DOMAIN statistics.value.value :
              \A s, t \in Buckets :
                  /\ statistics.value.value[c].start_max_degree[s][t]
                        <= statistics.value.value[c].count[s][t]
                  /\ statistics.value.value[c].end_max_degree[s][t]
                        <= statistics.value.value[c].count[s][t]

\* A catalog has been built with a path statistic and a star statistic that
\* each have a cell with a max degree of at least 2 below the count.
C16_Witness ==
    /\ \E st \in BuiltPathStatistics :
          \E s, t \in Buckets :
              /\ st.start_max_degree[s][t] >= 2
              /\ st.start_max_degree[s][t] < st.count[s][t]
    /\ \E st \in BuiltStarStatistics :
          \E b \in Buckets : st.max_degree[b] >= 2 /\ st.max_degree[b] < st.count[b]


(***************************************************************************)
(* binning/greedy.rs: GreedyBinner.  A bucket map is a function from the   *)
(* vertex ids to the bucket ids.  A pair of columns is the sequence of its *)
(* items, each with the vertices and the neighbors of the item.  The       *)
(* order in which a hash map is iterated is a parameter: a sequence of the *)
(* bucket ids that holds every key.                                        *)
(***************************************************************************)
\* usize::MAX, written -1.
INVALID_VERTEX_ID == -1

is_valid(v) == v # INVALID_VERTEX_ID

\* build_initial_bucket_map with the bigger buckets put last.
build_initial_bucket_map_big_last(budget, vertices) ==
    IF budget = 0 \/ vertices = <<>> \/ HasDuplicates(vertices) THEN Err("panic")
    ELSE
        LET vertex_count == Len(vertices)
            small_bucket_count == budget - (vertex_count % budget)
            big_bucket_size == (vertex_count + budget - 1) \div budget
            small_bucket_size == vertex_count \div budget
            small == small_bucket_size * small_bucket_count
            pos(v) == CHOOSE i \in DOMAIN vertices : vertices[i] = v
        IN  Ok([v \in Range(vertices) |->
                   IF pos(v) <= small THEN (pos(v) - 1) \div small_bucket_size
                   ELSE small_bucket_count + (pos(v) - small - 1) \div big_bucket_size])

\* Itertools::chunks panics on a chunk size of 0, the remainder by 0 panics,
\* and the last assertion fails when a vertex id is listed twice.
build_initial_bucket_map(budget, vertices) ==
    IF budget = 0 THEN Err("panic")
    ELSE
        LET vertex_count == Len(vertices)
            big_bucket_count == vertex_count % budget
            big_bucket_size == (vertex_count + budget - 1) \div budget
            small_bucket_size == vertex_count \div budget
            big == big_bucket_size * big_bucket_count
            last(v) == SetMax({i \in DOMAIN vertices : vertices[i] = v})
        IN  IF big_bucket_size = 0 THEN Err("panic")
            ELSE IF HasDuplicates(vertices) THEN Err("panic")
            ELSE Ok([v \in Range(vertices) |->
                        IF last(v) <= big THEN (last(v) - 1) \div big_bucket_size
                        ELSE big_bucket_count + (last(v) - big - 1) \div small_bucket_size])

GreedyBinner_new(budget, vertices) ==
    LET initial_budget == (budget + 1) \div 2
        map == build_initial_bucket_map(initial_budget, vertices)
    IN  IF ~map.ok THEN map
        ELSE Ok([budget |-> budget - initial_budget,
                 current_num_buckets |-> initial_budget,
                 bucket_map |-> map.value])

multiplicity(item) ==
    Cardinality({j \in DOMAIN item.neighbors : is_valid(item.neighbors[j])})

compute_count_map(columns) ==
    [v \in {w \in UNION {Range(columns[i].vertices) :
                            i \in {j \in DOMAIN columns : multiplicity(columns[j]) # 0}} :
               is_valid(w)} |->
        SumSeq([i \in DOMAIN columns |->
                   multiplicity(columns[i])
                       * Cardinality({j \in DOMAIN columns[i].vertices :
                                         columns[i].vertices[j] = v})])]

\* The values of every bucket, sorted by (count, vertex).
compute_bucket_values(count_map, buckets) ==
    [b \in {buckets[v] : v \in DOMAIN count_map} |->
        LET sorted == SortPairs(SetToSeq({<<count_map[v], v>> :
                                             v \in {w \in DOMAIN count_map : buckets[w] = b}}))
        IN  [i \in DOMAIN sorted |-> [value |-> sorted[i][2], count |-> sorted[i][1]]]]

\* The number of values of a bucket with the sum and the sum of the squares
\* of their counts: mean = sum / count, variance = square_sum / count - mean^2.
compute_bucket_count_mean_variance(bucket_values) ==
    [b \in DOMAIN bucket_values |->
        [count |-> Len(bucket_values[b]),
         sum |-> SumSeq([i \in DOMAIN bucket_values[b] |-> bucket_values[b][i].count]),
         square_sum |-> SumSeq([i \in DOMAIN bucket_values[b] |->
                                   bucket_values[b][i].count * bucket_values[b][i].count])]]

SMALL_VARIANCE_THRESHOLD == 2

\* variance > SMALL_VARIANCE_THRESHOLD
large_variance(m) ==
    m.count * m.square_sum - m.sum * m.sum > SMALL_VARIANCE_THRESHOLD * m.count * m.count

\* The variance of m1 is at least that of m2.
variance_geq(m1, m2) ==
    (m1.count * m1.square_sum - m1.sum * m1.sum) * m2.count * m2.count
        >= (m2.count * m2.square_sum - m2.sum * m2.sum) * m1.count * m1.count

\* The keys of a map in the order of the iteration.
keys_in(order, map) == SelectSeq(order, LAMBDA b : b \in DOMAIN map)

\* sorted_unstable_by of the keys, variance descending: the keys of equal
\* variance stay in the order of the iteration.
RECURSIVE sorted_by_variance(_, _)
sorted_by_variance(mv, ids) ==
    IF ids = <<>> THEN <<>>
    ELSE LET rest == sorted_by_variance(mv, Tail(ids))
             x == Head(ids)
             k == Cardinality({i \in DOMAIN rest :
                                  ~variance_geq(mv[x], mv[rest[i]])})
         IN  SubSeq(rest, 1, k) \o <<x>> \o SubSeq(rest, k + 1, Len(rest))

\* The loops of compute_bucket_split_num: i is the position in bucket_ids,
\* old_budget the budget at the start of the pass in hand.
RECURSIVE split_num_loop(_, _, _, _, _, _)
split_num_loop(mv, bucket_ids, i, budget, old_budget, split) ==
    IF i > Len(bucket_ids)
    THEN (IF budget = old_budget THEN split
          ELSE split_num_loop(mv, bucket_ids, 1, budget, budget, split))
    ELSE IF ~large_variance(mv[bucket_ids[i]])
    THEN split_num_loop(mv, bucket_ids, i + 1, budget, old_budget, split)
    ELSE LET b == bucket_ids[i]
             split_num == IF b \in DOMAIN split THEN split[b] ELSE 0
         IN  IF split_num + 1 = mv[b].count
             THEN split_num_loop(mv, bucket_ids, i + 1, budget, old_budget,
                                 MapPut(split, b, split_num))
             ELSE IF budget = 1 THEN MapPut(split, b, split_num + 1)
             ELSE split_num_loop(mv, bucket_ids, i + 1, budget - 1, old_budget,
                                 MapPut(split, b, split_num + 1))

compute_bucket_split_num(mv, budget, order) ==
    IF budget = 0 THEN Err("panic")
    ELSE IF ~\E b \in DOMAIN mv : large_variance(mv[b]) THEN Ok(EmptyMap)
    ELSE LET split == split_num_loop(mv, sorted_by_variance(mv, keys_in(order, mv)),
                                     1, budget, budget, EmptyMap)
         IN  Ok([b \in {c \in DOMAIN split : split[c] > 0} |-> split[b]])

\* A multiple of every number of values a cluster of len values can have.
RECURSIVE ClusterScale(_)
ClusterScale(len) == IF len <= 1 THEN 1 ELSE len * ClusterScale(len - 1)

\* ClusterScale times the sum of the squared distances to the mean of the
\* values data[from..to].
cluster_cost(data, from, to) ==
    LET n == to - from + 1
        sum == SumSeq(SubSeq(data, from, to))
        square_sum == SumSeq([i \in 1..n |-> data[from + i - 1] * data[from + i - 1]])
    IN  (ClusterScale(Len(data)) \div n) * (n * square_sum - sum * sum)

\* The cost of the clustering whose clusters start at the positions starts.
clustering_cost(data, starts) ==
    SumSeq([i \in DOMAIN starts |->
               cluster_cost(data, starts[i],
                            IF i = Len(starts) THEN Len(data) ELSE starts[i + 1] - 1)])

\* The crate ckmeans (Ckmeans.1d.dp): the least values of the clusters of an
\* optimal clustering of the sorted data into nclusters clusters, or into as
\* many as there are distinct values when these are fewer.  Equal values
\* share a cluster.
ckmeans_lowerbound(data, nclusters) ==
    IF nclusters = 0 \/ nclusters > Len(data) THEN Err("Ckmeans")
    ELSE IF Cardinality(Range(data)) = 1 THEN Ok(<<data[1]>>)
    ELSE LET k == IF nclusters < Cardinality(Range(data)) THEN nclusters
                  ELSE Cardinality(Range(data))
             candidates == {SortedSeq(S \cup {1}) :
                               S \in {T \in SUBSET {i \in 2..Len(data) : data[i] # data[i - 1]} :
                                         Cardinality(T) = k - 1}}
             best == CHOOSE s \in candidates :
                         \A t \in candidates :
                             clustering_cost(data, s) <= clustering_cost(data, t)
         IN  Ok([i \in DOMAIN best |-> data[best[i]]])

\* The inner loop of split_buckets over the values of one bucket from the
\* i-th on; idx is current_lowerbound_idx.
RECURSIVE split_values(_, _, _, _, _, _)
split_values(num_buckets, buckets, values, lowerbounds, i, idx) ==
    IF i > Len(values) THEN [bucket_map |-> buckets, idx |-> idx]
    ELSE LET next == IF /\ idx # Len(lowerbounds) - 1
                        /\ values[i].count >= lowerbounds[idx + 2]
                     THEN idx + 1 ELSE idx
         IN  split_values(num_buckets,
                          IF next = 0 THEN buckets
                          ELSE [buckets EXCEPT ![values[i].value] = num_buckets + next - 1],
                          values, lowerbounds, i + 1, next)

\* One pass of the outer loop of split_buckets once the lower bounds are
\* at hand.
split_bucket(st, values, split_num, lowerbounds) ==
    IF ~st.ok THEN st
    ELSE IF ~lowerbounds.ok THEN Err("panic")
    ELSE IF lowerbounds.value = <<>> \/ Len(lowerbounds.value) > split_num + 1
    THEN Err("panic")
    ELSE LET r == split_values(st.value.num_buckets, st.value.bucket_map, values,
                               lowerbounds.value, 1, 0)
         IN  Ok([num_buckets |-> st.value.num_buckets + r.idx, bucket_map |-> r.bucket_map])

\* split_buckets over the keys of bucket_split_num_map in the order ids;
\* the number of clusters is passed as a u8.
RECURSIVE split_buckets(_, _, _, _)
split_buckets(st, bucket_values_map, bucket_split_num_map, ids) ==
    IF ids = <<>> THEN st
    ELSE split_buckets(
             split_bucket(st, bucket_values_map[Head(ids)], bucket_split_num_map[Head(ids)],
                          ckmeans_lowerbound(
                              [i \in DOMAIN bucket_values_map[Head(ids)] |->
                                  bucket_values_map[Head(ids)][i].count],
                              (bucket_split_num_map[Head(ids)] % 256) + 1)),
             bucket_values_map, bucket_split_num_map, Tail(ids))

\* update once the buckets are split: the budget is charged.
update_charged(b, num_buckets_to_add, st) ==
    IF ~st.ok THEN st
    ELSE IF st.value.num_buckets - b.current_num_buckets > num_buckets_to_add
    THEN Err("panic")
    ELSE Ok([budget |-> b.budget - (st.value.num_buckets - b.current_num_buckets),
             current_num_buckets |-> st.value.num_buckets,
             bucket_map |-> st.value.bucket_map])

\* update once the split numbers are at hand.
update_split(b, bucket_values_map, num_buckets_to_add, split, split_order) ==
    IF ~split.ok THEN split
    ELSE update_charged(b, num_buckets_to_add,
                        split_buckets(Ok([num_buckets |-> b.current_num_buckets,
                                          bucket_map |-> b.bucket_map]),
                                      bucket_values_map, split.value,
                                      keys_in(split_order, split.value)))

\* update once the values of the buckets are at hand.
update_values(b, bucket_values_map, num_buckets_to_add, order, split_order) ==
    update_split(b, bucket_values_map, num_buckets_to_add,
                 compute_bucket_split_num(
                     compute_bucket_count_mean_variance(bucket_values_map),
                     num_buckets_to_add, order),
                 split_order)

\* num_buckets_to_add with half the budget rounded up.
num_buckets_to_add_rounded_up(b) == (b.budget + 1) \div 2

\* The number of buckets one pass of update asks for.
num_buckets_to_add(b) == IF b.budget >= 2 THEN b.budget \div 2 ELSE 1

\* update once the count map is at hand; a column of keys (PK_THRESHOLD) is
\* ignored, and a vertex the bucket map does not hold makes unwrap panic.
update_counted(b, count_map, order, split_order) ==
    IF 100 * Cardinality({v \in DOMAIN count_map : count_map[v] = 1})
           > 99 * Cardinality(DOMAIN count_map)
    THEN Ok(b)
    ELSE IF ~(DOMAIN count_map \subseteq DOMAIN b.bucket_map) THEN Err("panic")
    ELSE update_values(b, compute_bucket_values(count_map, b.bucket_map),
                       num_buckets_to_add(b), order, split_order)

\* GreedyBinner::update: order is the order in which the map of the means
\* and variances is iterated, split_order that of the map of the split
\* numbers.
update(b, columns, order, split_order) ==
    IF b.budget = 0 THEN Ok(b)
    ELSE update_counted(b, compute_count_map(columns), order, split_order)

(***************************************************************************)
(* Binner specification: a binner is made for a budget and a list of       *)
(* vertex ids and updated with pairs of columns; a second run is made and  *)
(* updated with the same inputs, and iterates its hash maps in an order of *)
(* its own.                                                                *)
(***************************************************************************)
MaxBudget == 6

MaxBinVertices == 4

MaxUpdates == 2

Multiplicities == {0, 1, 2, 6}

\* The vertex lists: the first n of the ids 11, 7, 3, 15.
BinVertexIds == <<11, 7, 3, 15>>

InputVertexLists == {SubSeq(BinVertexIds, 1, n) : n \in 0..MaxBinVertices}

\* One item for every vertex, with as many valid neighbors as the vertex has
\* matches; an item without matches holds an invalid neighbor.
InputColumns(vertices) ==
    {[i \in DOMAIN vertices |->
         [vertices |-> <<vertices[i]>>,
          neighbors |-> IF m[i] = 0 THEN <<INVALID_VERTEX_ID>>
                        ELSE [j \in 1..m[i] |-> vertices[1]]]] :
        m \in [DOMAIN vertices -> Multiplicities]}

\* The orders a hash map whose keys are the first n bucket ids can be
\* iterated in.
HashOrders(n) ==
    {o \in [1..n -> 0..(n - 1)] : \A i, j \in 1..n : i # j => o[i] # o[j]}

InitBin ==
    /\ binner = None
    /\ rerun = None
    /\ bucket_value_lists = Idle /\ bucket_values_mutex = Idle /\ pending = Idle /\ workers = Idle
    /\ call = None
    /\ result = Idle
    /\ catalog = Idle /\ dir = Idle
    /\ schema = Idle /\ graph = Idle /\ bucket_map = Idle /\ statistics = Idle
    /\ pattern = Idle /\ other = Idle /\ code = Idle /\ otherCode = Idle /\ relation = Idle

\* GreedyBinner::new(budget, vertices), in both runs.
BinnerNew ==
    /\ ~binner.some
    /\ \E budget \in 1..MaxBudget, vertices \in InputVertexLists :
          /\ call' = Some([op |-> "new", budget |-> budget, vertices |-> vertices,
                           updates |-> 0])
          /\ binner' = Some(GreedyBinner_new(budget, vertices))
          /\ rerun' = Some(GreedyBinner_new(budget, vertices))
    /\ UNCHANGED <<workerVars, result, catalog, dir, patternVars, statsVars>>

UpdateEffect(first, second) ==
    /\ call' = Some([op |-> "update", budget |-> call.value.budget,
                     vertices |-> call.value.vertices,
                     updates |-> call.value.updates + 1,
                     before |-> [budget |-> binner.value.value.budget,
                                 current_num_buckets |->
                                     binner.value.value.current_num_buckets]])
    /\ binner' = Some(first)
    /\ rerun' = Some(second)

\* binner.update(vertex_column, neighbor_column) with the same columns in
\* both runs; each run iterates its hash maps in an order of its own.  At
\* most MaxBudget \div 4 buckets are split in one update, so that the order
\* of the map of the split numbers is that of the other map.
BinnerUpdate ==
    /\ binner.some /\ binner.value.ok
    /\ rerun.some /\ rerun.value.ok
    /\ call.value.updates < MaxUpdates
    /\ \E columns \in InputColumns(call.value.vertices) :
          \E order \in HashOrders(binner.value.value.current_num_buckets),
             reorder \in HashOrders(rerun.value.value.current_num_buckets) :
              UpdateEffect(update(binner.value.value, columns, order, order),
                           update(rerun.value.value, columns, reorder, reorder))
    /\ UNCHANGED <<workerVars, result, catalog, dir, patternVars, statsVars>>

NextBin == BinnerNew \/ BinnerUpdate

SpecBin == InitBin /\ [][NextBin]_vars


(***************************************************************************)
(* The bucket maps of the binner under SpecBin.                            *)
(***************************************************************************)
\* The bucket ids in use.
BucketIdsInUse(b) == {b.bucket_map[v] : v \in DOMAIN b.bucket_map}

\* The bucket map of b holds the vertices listed and no other, the bucket
\* ids are smaller than the budget and dense.
TotalAndDense(b, budget, vertices) ==
    /\ DOMAIN b.bucket_map = Range(vertices)
    /\ \A id \in BucketIdsInUse(b) : id < budget
    /\ \A id \in BucketIdsInUse(b) : \A smaller \in 0..id : smaller \in BucketIdsInUse(b)

\* C15: for a budget of at least 1 and a list of distinct vertex ids,
\* GreedyBinner::new and every update after it complete, and the bucket map
\* holds every vertex listed exactly once, with bucket ids smaller than the
\* budget and dense in 0..the largest id in use.
C15_BucketTotality ==
    binner.some
        => /\ binner.value.ok
           /\ TotalAndDense(binner.value.value, call.value.budget, call.value.vertices)

\* C15 for the lists that hold a vertex.
BucketTotalityUnlessEmpty ==
    (binner.some /\ call.value.vertices # <<>>)
        => /\ binner.value.ok
           /\ TotalAndDense(binner.value.value, call.value.budget, call.value.vertices)

\* A binner made for an empty list of vertices panics.
EmptyLabelPanics ==
    (binner.some /\ call.value.vertices = <<>>) => binner.value = Err("panic")

\* A bucket was split: the binner holds more buckets than it started with.
BucketSplitReached ==
    ~(/\ binner.some /\ binner.value.ok
      /\ call.value.updates = MaxUpdates
      /\ binner.value.value.current_num_buckets = MaxBudget)


\* C19: two runs of the binner with the same budget, the same vertices and
\* the same columns end with the same bucket map, whatever the order their
\* hash maps are iterated in.
C19_SameBucketMap ==
    (binner.some /\ rerun.some) => binner = rerun

\* The two runs complete alike and their bucket maps hold the same vertices.
SameVerticesBinned ==
    (binner.some /\ rerun.some)
        => /\ binner.value.ok = rerun.value.ok
           /\ binner.value.ok
                  => DOMAIN binner.value.value.bucket_map = DOMAIN rerun.value.value.bucket_map


(***************************************************************************)
(* The initial bucket map of the binner under SpecBin.                     *)
(***************************************************************************)
\* The binner as GreedyBinner::new returned it, no update made.
JustMade == binner.some /\ call.value.op = "new"

\* ceil(B/2) for the budget of the call.
InitialBudget == (call.value.budget + 1) \div 2

\* The number of vertices the bucket map of b sends to the bucket id.
BucketSize(b, id) == Cardinality({v \in DOMAIN b.bucket_map : b.bucket_map[v] = id})

\* The bucket ids do not decrease along the list of vertices: every bucket
\* is a contiguous run of the list.
InInputOrder(b, vertices) ==
    \A i, j \in DOMAIN vertices :
        i <= j => b.bucket_map[vertices[i]] <= b.bucket_map[vertices[j]]

\* C26: GreedyBinner::new with budget B over n vertices assigns the
\* vertices, in input order, to ceil(B/2) contiguous buckets numbered from
\* 0, of which the last (B mod initial) have ceil(n/initial) vertices and
\* all the others floor(n/initial); read for n >= 1.
C26_LastBucketsBigger ==
    (JustMade /\ call.value.vertices # <<>>)
        => /\ binner.value.ok
           /\ DOMAIN binner.value.value.bucket_map = Range(call.value.vertices)
           /\ InInputOrder(binner.value.value, call.value.vertices)
           /\ \A id \in 0..(InitialBudget - 1) :
                 BucketSize(binner.value.value, id)
                     = IF id >= InitialBudget - (call.value.budget % InitialBudget)
                       THEN (Len(call.value.vertices) + InitialBudget - 1) \div InitialBudget
                       ELSE Len(call.value.vertices) \div InitialBudget

\* C26 as the code has it: over n >= 1 vertices the first (n mod initial)
\* buckets have ceil(n/initial) vertices and all the others floor(n/initial),
\* and no bucket id is initial or more.
C26_FirstBucketsBigger ==
    (JustMade /\ call.value.vertices # <<>>)
        => /\ binner.value.ok
           /\ DOMAIN binner.value.value.bucket_map = Range(call.value.vertices)
           /\ InInputOrder(binner.value.value, call.value.vertices)
           /\ binner.value.value.current_num_buckets = InitialBudget
           /\ \A id \in BucketIdsInUse(binner.value.value) : id < InitialBudget
           /\ \A id \in 0..(InitialBudget - 1) :
                 BucketSize(binner.value.value, id)
                     = IF id < Len(call.value.vertices) % InitialBudget
                       THEN (Len(call.value.vertices) + InitialBudget - 1) \div InitialBudget
                       ELSE Len(call.value.vertices) \div InitialBudget

\* Three vertices in two buckets: the first bucket holds two of them.
C26_Witness ==
    /\ JustMade /\ binner.value.ok
    /\ Len(call.value.vertices) = 3
    /\ InitialBudget = 2
    /\ BucketSize(binner.value.value, 0) = 2
    /\ BucketSize(binner.value.value, 1) = 1


(***************************************************************************)
(* One pass of GreedyBinner::update under SpecBin.                         *)
(***************************************************************************)
MaxRequests == 3

\* The split number of the bucket id in the map split, 0 when it has none.
SplitNum(split, id) == IF id \in DOMAIN split THEN split[id] ELSE 0

\* The variance of m1 is greater than that of m2.
variance_gt(m1, m2) == ~variance_geq(m2, m1)

\* The split numbers handed out for the means and variances mv and a number
\* of requests: a bucket of small variance gets none and a bucket of n
\* values at most n - 1; the requests are all handed out unless every bucket
\* of large variance has as many as it can take; a bucket has at most one
\* more than another that can take more, and none less than a bucket of
\* smaller variance unless it can take no more.
HandedOut(mv, requests, split) ==
    /\ \A id \in DOMAIN split :
          /\ id \in DOMAIN mv /\ large_variance(mv[id])
          /\ 1 <= split[id] /\ split[id] <= mv[id].count - 1
    /\ SumSeq([i \in 1..MaxBudget |-> SplitNum(split, i - 1)]) <= requests
    /\ \/ SumSeq([i \in 1..MaxBudget |-> SplitNum(split, i - 1)]) = requests
       \/ \A id \in DOMAIN mv :
             large_variance(mv[id]) => SplitNum(split, id) = mv[id].count - 1
    /\ \A id1, id2 \in {id \in DOMAIN mv : large_variance(mv[id])} :
          /\ SplitNum(split, id2) < mv[id2].count - 1
                 => SplitNum(split, id1) <= SplitNum(split, id2) + 1
          /\ (variance_gt(mv[id1], mv[id2]) /\ SplitNum(split, id1) < mv[id1].count - 1)
                 => SplitNum(split, id1) >= SplitNum(split, id2)

\* HandedOut for every number of requests and every order of iteration.
HandedOutAlways(mv, n) ==
    \A requests \in 1..MaxRequests, order \in HashOrders(n) :
        /\ compute_bucket_split_num(mv, requests, order).ok
        /\ HandedOut(mv, requests, compute_bucket_split_num(mv, requests, order).value)

\* The passes the binner b can make over the vertices hand out their
\* requests as HandedOut has it.
PassesHandOut(b, vertices) ==
    \A columns \in InputColumns(vertices) :
        HandedOutAlways(
            compute_bucket_count_mean_variance(
                compute_bucket_values(compute_count_map(columns), b.bucket_map)),
            b.current_num_buckets)

\* The update that led to this state added no more buckets than it asked
\* for and took as many from the budget.
AddedWithinRequest(b, before, requested) ==
    /\ b.current_num_buckets >= before.current_num_buckets
    /\ b.current_num_buckets - before.current_num_buckets <= requested
    /\ b.budget = before.budget - (b.current_num_buckets - before.current_num_buckets)

\* C27: a pass of update with the budget b > 0 left asks for ceil(b/2) new
\* buckets, hands the requests out one at a time in the order of descending
\* variance, skipping the buckets of variance at most 2 and those whose
\* split number + 1 is their number of values, adds no more buckets than it
\* asked for and takes as many from the budget as it added.
C27_RequestsHalfRoundedUp ==
    /\ (binner.some /\ binner.value.ok /\ binner.value.value.budget > 0)
          => /\ num_buckets_to_add(binner.value.value)
                    = (binner.value.value.budget + 1) \div 2
             /\ PassesHandOut(binner.value.value, call.value.vertices)
    /\ (binner.some /\ call.value.op = "update" /\ call.value.before.budget > 0)
          => /\ binner.value.ok
             /\ AddedWithinRequest(binner.value.value, call.value.before,
                                   (call.value.before.budget + 1) \div 2)

\* C27 as the code has it: the pass asks for floor(b/2) new buckets, and
\* for 1 when b = 1.
C27_RequestsHalfRoundedDown ==
    /\ (binner.some /\ binner.value.ok /\ binner.value.value.budget > 0)
          => /\ num_buckets_to_add(binner.value.value)
                    = IF binner.value.value.budget = 1 THEN 1
                      ELSE binner.value.value.budget \div 2
             /\ PassesHandOut(binner.value.value, call.value.vertices)
    /\ (binner.some /\ call.value.op = "update" /\ call.value.before.budget > 0)
          => /\ binner.value.ok
             /\ AddedWithinRequest(binner.value.value, call.value.before,
                                   IF call.value.before.budget = 1 THEN 1
                                   ELSE call.value.before.budget \div 2)

\* A pass with a budget of 3 added the one bucket it asked for.
C27_Witness ==
    /\ binner.some /\ binner.value.ok
    /\ call.value.op = "update"
    /\ call.value.before.budget = 3
    /\ binner.value.value.budget = 2
    /\ binner.value.value.current_num_buckets = call.value.before.current_num_buckets + 1


(***************************************************************************)
(* statistics.rs: compute_bucket_values_for_label as its parallel workers  *)
(* run it.  par_iter hands every entry of the bucket map of the label to   *)
(* one worker; the worker locks the mutex of the bucket of the entry,      *)
(* pushes the vertex id to the list behind it and drops the guard.  The    *)
(* push reads the length of the list and writes the id behind it.          *)
(***************************************************************************)
NumWorkers == 2

Workers == 1..NumWorkers

\* The label whose bucket values are computed: the least of the bucket map.
BinnedLabel ==
    CHOOSE l \in DOMAIN bucket_map : \A m \in DOMAIN bucket_map : l <= m

\* lock_acquired without the mutex: the list is pushed to unguarded.
lock_acquired_unguarded(mutexes, bucket_id) == bucket_id \in DOMAIN mutexes

\* Mutex::lock returns when no worker holds the mutex.
lock_acquired(mutexes, bucket_id) == ~mutexes[bucket_id].some

\* Vec::push of value behind the len values of the list: the list is len + 1
\* long afterwards.
push(list, len, value) == SubSeq(list, 1, len) \o <<value>>

\* vec![vec![]; self.buckets] and a mutex for every list; no entry is taken.
InitWorkers ==
    /\ schema \in InputSchemas
    /\ graph \in InputGraphs(schema)
    /\ bucket_map \in InputBucketMaps(schema)
    /\ BinnedLabel \in DOMAIN bucket_map
    /\ statistics = Idle
    /\ call = Some([op |-> "compute_bucket_values_for_label", vertex_label |-> BinnedLabel])
    /\ result = None
    /\ bucket_value_lists = [b \in 0..(NumBuckets - 1) |-> <<>>]
    /\ bucket_values_mutex = [b \in 0..(NumBuckets - 1) |-> None]
    /\ pending = {<<v, bucket_map[BinnedLabel][v]>> : v \in DOMAIN bucket_map[BinnedLabel]}
    /\ workers = [w \in Workers |-> [pc |-> "idle"]]
    /\ pattern = Idle /\ other = Idle /\ code = Idle /\ otherCode = Idle /\ relation = Idle
    /\ catalog = Idle /\ dir = Idle
    /\ binner = Idle /\ rerun = Idle

\* A worker takes an entry of the bucket map; a bucket id that has no list
\* makes get(..).unwrap() panic.
TakeEntry(w) ==
    /\ ~result.some
    /\ workers[w].pc = "idle"
    /\ \E entry \in pending :
          /\ pending' = pending \ {entry}
          /\ IF entry[2] \in DOMAIN bucket_values_mutex
             THEN /\ workers' = [workers EXCEPT ![w] = [pc |-> "lock", vertex_id |-> entry[1],
                                                       bucket_id |-> entry[2]]]
                  /\ result' = result
             ELSE /\ workers' = workers
                  /\ result' = Some(Err("panic"))
    /\ UNCHANGED <<bucket_value_lists, bucket_values_mutex, call, catalog, dir,
                   binVars, patternVars, statsVars>>

\* .lock().unwrap()
Lock(w) ==
    /\ workers[w].pc = "lock"
    /\ lock_acquired(bucket_values_mutex, workers[w].bucket_id)
    /\ bucket_values_mutex' = [bucket_values_mutex EXCEPT ![workers[w].bucket_id] = Some(w)]
    /\ workers' = [workers EXCEPT ![w] = [pc |-> "push", vertex_id |-> @.vertex_id,
                                           bucket_id |-> @.bucket_id,
                                           len |-> Len(bucket_value_lists[@.bucket_id])]]
    /\ UNCHANGED <<bucket_value_lists, pending, catalogVars, binVars, patternVars, statsVars>>

\* .push(*vertex_id)
Push(w) ==
    /\ workers[w].pc = "push"
    /\ bucket_value_lists' = [bucket_value_lists EXCEPT ![workers[w].bucket_id] =
                            push(@, workers[w].len, workers[w].vertex_id)]
    /\ workers' = [workers EXCEPT ![w] = [pc |-> "unlock", bucket_id |-> @.bucket_id]]
    /\ UNCHANGED <<bucket_values_mutex, pending, catalogVars, binVars, patternVars, statsVars>>

\* The guard is dropped at the end of the statement.
Unlock(w) ==
    /\ workers[w].pc = "unlock"
    /\ bucket_values_mutex' = [bucket_values_mutex EXCEPT ![workers[w].bucket_id] =
                                  IF @ = Some(w) THEN None ELSE @]
    /\ workers' = [workers EXCEPT ![w] = [pc |-> "idle"]]
    /\ UNCHANGED <<bucket_value_lists, pending, catalogVars, binVars, patternVars, statsVars>>

\* for_each returns when every entry is done: the lists are returned.
ReturnBucketValues ==
    /\ ~result.some
    /\ pending = {}
    /\ \A w \in Workers : workers[w].pc = "idle"
    /\ result' = Some(Ok(bucket_value_lists))
    /\ UNCHANGED <<workerVars, call, catalog, dir, binVars, patternVars, statsVars>>

NextWorkers ==
    \/ \E w \in Workers : TakeEntry(w)
    \/ \E w \in Workers : Lock(w)
    \/ \E w \in Workers : Push(w)
    \/ \E w \in Workers : Unlock(w)
    \/ ReturnBucketValues

SpecWorkers == InitWorkers /\ [][NextWorkers]_vars

\* The lists were returned.
Returned28 == result.some /\ result.value.ok

\* C28: under every interleaving of the workers,
\* compute_bucket_values_for_label returns a list for every bucket, and
\* every vertex of the label is exactly once in the list of its bucket and
\* in no other list.
C28_EveryVertexOnceInItsBucket ==
    result.some
        => /\ result.value.ok
           /\ DOMAIN result.value.value = 0..(NumBuckets - 1)
           /\ \A b \in DOMAIN result.value.value :
                 /\ ~HasDuplicates(result.value.value[b])
                 /\ Range(result.value.value[b])
                        = {v \in DOMAIN bucket_map[BinnedLabel] :
                              bucket_map[BinnedLabel][v] = b}
                 /\ Range(result.value.value[b])
                        = Range(compute_bucket_values_for_label(
                                    [buckets |-> NumBuckets, bucket_map |-> bucket_map],
                                    BinnedLabel)[b])

\* Two vertices of one bucket were pushed, and the lists were returned.
C28_Witness ==
    /\ result.some /\ result.value.ok
    /\ \E b \in DOMAIN result.value.value : Len(result.value.value[b]) >= 2

\* While a worker is between lock and unlock no other worker is.
MutualExclusion ==
    \A w1, w2 \in Workers :
        (/\ w1 # w2
         /\ workers[w1].pc \in {"push", "unlock"}
         /\ workers[w2].pc \in {"push", "unlock"})
            => workers[w1].bucket_id # workers[w2].bucket_id

(***************************************************************************)
(* C22: the victim of every elimination step of an estimate without a      *)
(* predefined order.                                                       *)
(***************************************************************************)
\* The steps of all the runs of the join engine of the call.
EliminationSteps ==
    IF result.some
    THEN UNION {Range(result.value.runs[i].steps) : i \in DOMAIN result.value.runs}
    ELSE {}

LiveVertexTags(cp) == DOMAIN cp.tag_vertex_map

\* The distinct tags of the live hyperedges at x, x excluded.
DistinctNeighbourTags(cp, x) ==
    UNION {Range(e.vertices) :
              e \in {e \in Range(catalog_edges(cp)) : x \in Range(e.vertices)}} \ {x}

FewestNeighbours(cp, x) ==
    \A y \in LiveVertexTags(cp) :
        Cardinality(DistinctNeighbourTags(cp, x)) <= Cardinality(DistinctNeighbourTags(cp, y))

\* C22: without a predefined order the victim of every elimination step is
\* a live vertex of the fewest distinct neighbour tags over its live
\* hyperedges, and of the least tag among the vertices of that number.
C22_VictimFewestNeighboursLeastTag ==
    \A s \in EliminationSteps :
        /\ s.victim \in LiveVertexTags(s.before)
        /\ FewestNeighbours(s.before, s.victim)
        /\ \A y \in LiveVertexTags(s.before) :
               FewestNeighbours(s.before, y) => s.victim <= y

\* A step whose victim is neither the first vertex of the pattern nor the
\* only one of the fewest neighbours: the count and the tie both decide.
C22_Witness ==
    \E s \in EliminationSteps :
        /\ s.victim # catalog_vertices(s.before)[1].tag_id
        /\ \E y \in LiveVertexTags(s.before) :
               y # s.victim /\ FewestNeighbours(s.before, y)
        /\ \E y \in LiveVertexTags(s.before) : ~FewestNeighbours(s.before, y)

(***************************************************************************)
(* Decomposer specification: a catalog is built as for the estimator, and  *)
(* one function of the decomposer is applied to one query: decompose_path  *)
(* to a candidate path, generate_spanning_trees, or prune.  The queries    *)
(* are those of the estimator and, under LoopSchema, a path of three       *)
(* edges, a triangle with a tail, a square with a diagonal, and patterns   *)
(* with two edges between the same vertices or with a self-loop.           *)
(***************************************************************************)
LongPathShape == [labels |-> <<0, 0, 0, 0>>, edges |-> <<<<0, 1>>, <<1, 2>>, <<2, 3>>>>]

TailedTriangleShape ==
    [labels |-> <<0, 0, 0, 0>>, edges |-> <<<<0, 1>>, <<1, 2>>, <<2, 0>>, <<2, 3>>>>]

DiagonalSquareShape ==
    [labels |-> <<0, 0, 0, 0>>,
     edges |-> <<<<0, 1>>, <<1, 2>>, <<2, 3>>, <<3, 0>>, <<0, 2>>>>]

DoubleEdgeShape == [labels |-> <<0, 0>>, edges |-> <<<<0, 1>>, <<0, 1>>>>]

OppositeEdgesShape == [labels |-> <<0, 0>>, edges |-> <<<<0, 1>>, <<1, 0>>>>]

DoubledTriangleShape ==
    [labels |-> <<0, 0, 0>>, edges |-> <<<<0, 1>>, <<1, 2>>, <<2, 0>>, <<0, 1>>>>]

SelfLoopShape == [labels |-> <<0, 0>>, edges |-> <<<<0, 1>>, <<1, 1>>>>]

SelfLoopTriangleShape ==
    [labels |-> <<0, 0, 0>>, edges |-> <<<<0, 1>>, <<1, 2>>, <<2, 0>>, <<0, 0>>>>]

DecomposeShapes(sch) ==
    IF sch = LoopSchema
    THEN QueryShapes(sch)
         \cup {LongPathShape, TailedTriangleShape, DiagonalSquareShape, DoubleEdgeShape,
               OppositeEdgesShape, DoubledTriangleShape, SelfLoopShape,
               SelfLoopTriangleShape}
    ELSE QueryShapes(sch)

DecomposeQueries(sch) == {Query(q.labels, q.edges) : q \in DecomposeShapes(sch)}

\* The clique of five vertices without the edge between its last two.
NearCliqueShape ==
    [labels |-> <<0, 0, 0, 0, 0>>,
     edges |-> <<<<0, 1>>, <<0, 2>>, <<0, 3>>, <<0, 4>>, <<1, 2>>, <<1, 3>>, <<1, 4>>,
                 <<2, 3>>, <<2, 4>>>>]

FiveCliqueShape ==
    [labels |-> <<0, 0, 0, 0, 0>>,
     edges |-> <<<<0, 1>>, <<0, 2>>, <<0, 3>>, <<0, 4>>, <<1, 2>>, <<1, 3>>, <<1, 4>>,
                 <<2, 3>>, <<2, 4>>, <<3, 4>>>>]

\* The patterns prune is called on: those of the queries that are cyclic
\* and no cycle, and the two patterns of five vertices.
PruneQueries(sch) ==
    {q \in DecomposeQueries(sch) : is_cyclic(q) /\ ~is_cycle(q)}
    \cup (IF sch = LoopSchema
          THEN {Query(q.labels, q.edges) : q \in {NearCliqueShape, FiveCliqueShape}}
          ELSE {})

\* The candidate paths of a pattern, one after the other.
CandidatePaths(p) ==
    IF find_candidate_paths(p).ok
    THEN Flatten([i \in DOMAIN find_candidate_paths(p).value |->
                     find_candidate_paths(p).value[i][2]])
    ELSE <<>>

\* The graphs and schemas of the estimator, every vertex in bucket 0.
InitDecompose ==
    /\ InitEstimate
    /\ \A l \in DOMAIN bucket_map : \A v \in DOMAIN bucket_map[l] : bucket_map[l][v] = 0

DecomposePathEffect(d, p, path) ==
    /\ call' = Some([op |-> "decompose_path", pattern |-> p, path |-> path,
                     max_path_length |-> d.max_path_length,
                     disable_star |-> d.disable_star])
    /\ result' = Some(decompose_path(d, p, path))

\* HeuristicDecomposer::decompose_path on a candidate path of the pattern.
DecomposePath ==
    /\ catalog.some
    /\ catalog.value.ok
    /\ ~call.some
    /\ \E p \in DecomposeQueries(schema), max_path_length \in 1..MaxPathLength,
          disable_star \in BOOLEAN :
          \E i \in DOMAIN CandidatePaths(p) :
              DecomposePathEffect(
                  HeuristicDecomposer_new(catalog.value.value, max_path_length,
                                          MaxStarLength, MaxStarDegree, 1, disable_star,
                                          FALSE, FALSE),
                  p, CandidatePaths(p)[i])
    /\ UNCHANGED <<workerVars, binVars, schema, graph, bucket_map, statistics, catalog, dir, patternVars>>

GenerateSpanningTreesEffect(p, limit) ==
    /\ call' = Some([op |-> "generate_spanning_trees", pattern |-> p, limit |-> limit])
    /\ result' = Some(generate_spanning_trees(p, limit))

\* generate_spanning_trees on a cyclic pattern.
GenerateSpanningTrees ==
    /\ catalog.some
    /\ ~call.some
    /\ \E p \in {q \in DecomposeQueries(schema) : is_cyclic(q)}, limit \in 0..MaxLimit :
          GenerateSpanningTreesEffect(p, limit)
    /\ UNCHANGED <<workerVars, binVars, schema, graph, bucket_map, statistics, catalog, dir, patternVars>>

PruneEffect(d, p) ==
    /\ call' = Some([op |-> "prune", pattern |-> p])
    /\ result' = Some(prune(d, p))

\* HeuristicDecomposer::prune, which decompose_cyclic calls on a cyclic
\* pattern that is not a cycle.
Prune ==
    /\ catalog.some
    /\ catalog.value.ok
    /\ ~call.some
    /\ \E p \in PruneQueries(schema) :
          PruneEffect(
              HeuristicDecomposer_new(catalog.value.value, MaxPathLength, MaxStarLength,
                                      MaxStarDegree, 1, FALSE, FALSE, FALSE),
              p)
    /\ UNCHANGED <<workerVars, binVars, schema, graph, bucket_map, statistics, catalog, dir, patternVars>>

NextDecompose == BuildCatalog \/ DecomposePath \/ GenerateSpanningTrees \/ Prune

SpecDecompose == InitDecompose /\ [][NextDecompose]_vars

(***************************************************************************)
(* C25: the segments of decompose_path and the hyperedges they become.     *)
(***************************************************************************)
DecomposedPath == call.some /\ call.value.op = "decompose_path" /\ result.some

SegmentOf(i) == result.value[i].segments[1]

\* The segments are consecutive, of at most max_path_length edges each and
\* hold the edges of the path once each in their order.
SegmentsCoverPath ==
    /\ result.value # <<>>
    /\ \A i \in DOMAIN result.value :
           /\ Len(result.value[i].segments) = 1
           /\ Len(SegmentOf(i).edges) \in 1..call.value.max_path_length
           /\ Len(SegmentOf(i).vertices) = Len(SegmentOf(i).edges) + 1
    /\ segment_start(SegmentOf(1)) = segment_start(call.value.path)
    /\ \A i \in 1..(Len(result.value) - 1) :
           /\ segment_end(SegmentOf(i)) = segment_start(SegmentOf(i + 1))
    /\ Flatten([i \in DOMAIN result.value |-> SegmentOf(i).edges]) = call.value.path.edges
    /\ Flatten([i \in DOMAIN result.value |->
                   IF i = 1 THEN SegmentOf(i).vertices ELSE Tail(SegmentOf(i).vertices)])
           = call.value.path.vertices

StartDegree(i) == get_vertex_degree(call.value.pattern, segment_start(SegmentOf(i)))

EndDegree(i) == get_vertex_degree(call.value.pattern, segment_end(SegmentOf(i)))

\* The hyperedges the translation found a label for.
Translated == {i \in DOMAIN result.value : result.value[i].edge.ok}

C25_DisabledStarsReached ==
    /\ DecomposedPath
    /\ call.value.disable_star
    /\ \E i \in Translated :
           /\ Len(SegmentOf(i).edges) = 2
           /\ EndDegree(i) = 1
           /\ result.value[i].edge.value.kind = "Path"

(***************************************************************************)
(* C23: the patterns generate_spanning_trees returns.                      *)
(***************************************************************************)
GeneratedTrees == call.some /\ call.value.op = "generate_spanning_trees" /\ result.some

RECURSIVE JoinedTo(_, _)
\* The tags joined to those of visited by the edges given.
JoinedTo(es, visited) ==
    LET next == visited \cup {e.src : e \in {e \in es : e.dst \in visited}}
                        \cup {e.dst : e \in {e \in es : e.src \in visited}}
    IN  IF next = visited THEN visited ELSE JoinedTo(es, next)

\* A tree over all the vertices of p made of edges of p: connected, and
\* acyclic as it has one edge less than it has vertices.
IsSpanningTree(p, tree) ==
    /\ {v.tag_id : v \in Range(tree.vertices)} = {v.tag_id : v \in Range(p.vertices)}
    /\ Len(tree.vertices) = Len(p.vertices)
    /\ Range(tree.edges) \subseteq Range(p.edges)
    /\ Cardinality(Range(tree.edges)) = Len(p.vertices) - 1
    /\ Len(tree.edges) = Len(p.vertices) - 1
    /\ JoinedTo(Range(tree.edges), {p.vertices[1].tag_id})
           = {v.tag_id : v \in Range(p.vertices)}

SpanningTreesWithin(p, limit, trees) ==
    /\ trees.ok
    /\ Len(trees.value) <= limit
    /\ \A i \in DOMAIN trees.value : IsSpanningTree(p, trees.value[i])
    /\ \A i, j \in DOMAIN trees.value :
           i # j => Range(trees.value[i].edges) # Range(trees.value[j].edges)

\* No two edges between the same two vertices and no edge from a vertex to
\* itself.
IsSimple(p) ==
    \A i, j \in DOMAIN p.edges :
        /\ p.edges[i].src # p.edges[i].dst
        /\ i # j => {p.edges[i].src, p.edges[i].dst} # {p.edges[j].src, p.edges[j].dst}

\* C23: for every connected cyclic pattern, multi-edges and self-loops
\* included, generate_spanning_trees returns at most limit patterns, each a
\* spanning tree of the pattern, no two of the same edges.
C23_SpanningTreesOfEveryPattern ==
    GeneratedTrees =>
        SpanningTreesWithin(call.value.pattern, call.value.limit, result.value)

\* The same for the patterns without multi-edges and self-loops only.
SpanningTreesOfSimplePatterns ==
    (GeneratedTrees /\ IsSimple(call.value.pattern)) =>
        SpanningTreesWithin(call.value.pattern, call.value.limit, result.value)

\* The patterns with self-loops and without multi-edges.
SpanningTreesOfSelfLoopPatterns ==
    (GeneratedTrees /\ \A i, j \in DOMAIN call.value.pattern.edges :
                           i # j => {call.value.pattern.edges[i].src,
                                     call.value.pattern.edges[i].dst}
                                    # {call.value.pattern.edges[j].src,
                                       call.value.pattern.edges[j].dst}) =>
        SpanningTreesWithin(call.value.pattern, call.value.limit, result.value)

\* Two edges between the same two vertices, and the function panics.
MultiEdgePanics ==
    /\ GeneratedTrees
    /\ ~IsSimple(call.value.pattern)
    /\ ~result.value.ok

\* Two edges between the same two vertices, and two of the patterns
\* returned have the same edges.
MultiEdgeRepeatsTree ==
    /\ GeneratedTrees
    /\ result.value.ok
    /\ \E i, j \in DOMAIN result.value.value :
           i # j /\ Range(result.value.value[i].edges) = Range(result.value.value[j].edges)

\* All three spanning trees of the triangle are returned under limit 4.
TriangleTreesReached ==
    /\ GeneratedTrees
    /\ IsSimple(call.value.pattern)
    /\ result.value.ok
    /\ Len(call.value.pattern.edges) = 3
    /\ Len(result.value.value) = 3

(***************************************************************************)
(* C24: the pattern prune returns.                                         *)
(***************************************************************************)
Pruned == call.some /\ call.value.op = "prune" /\ result.some

\* The decomposer of the call.
PruneDecomposer ==
    HeuristicDecomposer_new(catalog.value.value, MaxPathLength, MaxStarLength,
                            MaxStarDegree, 1, FALSE, FALSE, FALSE)

\* The elimination in the order of the fewest pivot-neighbours meets no
\* vertex of more than 2 of them: it ends with nothing to prune.
NoDenseVertexMet(d, p, candidate_paths) ==
    /\ candidate_paths.ok
    /\ prune_victims_of(d, p, candidate_paths.value) = Ok(<<>>)

IsPrunedFrom(d, p, pruned) ==
    /\ pruned.vertices = p.vertices
    /\ Range(pruned.edges) \subseteq Range(p.edges)
    /\ JoinedTo(Range(pruned.edges), {p.vertices[1].tag_id})
           = {v.tag_id : v \in Range(p.vertices)}
    /\ NoDenseVertexMet(d, pruned, find_candidate_paths(pruned))

\* C24: for every connected cyclic pattern that is no cycle prune returns a
\* connected pattern of the same vertices and of edges of the input in
\* which the elimination by fewest pivot-neighbours meets no vertex of more
\* than 2 pivot-neighbours.
C24_PruneReturnsSparsePattern ==
    Pruned => /\ result.value.ok
              /\ IsPrunedFrom(PruneDecomposer, call.value.pattern, result.value.value)

\* The same unless prune panics.
PruneSparseUnlessPanic ==
    (Pruned /\ result.value.ok) =>
        IsPrunedFrom(PruneDecomposer, call.value.pattern, result.value.value)

\* prune panics only on a pattern with a pivot of three pivot-neighbours or
\* more.
PrunePanicsOnDensePatternOnly ==
    (Pruned /\ ~result.value.ok) =>
        ~NoDenseVertexMet(PruneDecomposer, call.value.pattern,
                          find_candidate_paths(call.value.pattern))

\* An edge was pruned.
PrunedEdgeReached ==
    /\ Pruned
    /\ result.value.ok
    /\ Len(result.value.value.edges) < Len(call.value.pattern.edges)

PrunePanicReached == Pruned /\ ~result.value.ok

(***************************************************************************)
(* estimate/mod.rs: estimate_with_order and CardinalityEstimatorManual.    *)
(***************************************************************************)
\* The card of one run of the join engine and the catalog after it:
\* next_table_id is set after a card only, the views stay in any case.
joined(est, r) ==
    min_card(est, collect_card([cards |-> <<>>, conn |-> Connection(est.catalog),
                                next_id |-> est.catalog.next_table_id, runs |-> <<>>],
                               r))

\* The tail of estimate_with_order: the join engine on the pattern of the
\* decomposer under the order.
estimate_ordered(est, decomposed, order, overflow_checks) ==
    IF ~decomposed.ok
    THEN [card |-> Err("panic"), runs |-> <<>>, catalog |-> est.catalog]
    ELSE joined(est, EstimateState_estimate_with(
                         Connection(est.catalog), decomposed.value.catalog_pattern,
                         est.catalog.next_table_id, Some(order), overflow_checks))

\* The pattern decompose_with_pivots makes of the order.
decompose_order(est, p, order) ==
    decompose_with_pivots(
        HeuristicDecomposer_new(est.catalog, est.max_path_length, est.max_star_length,
                                est.max_star_degree, est.limit, est.disable_star,
                                est.disable_prune, est.disable_cyclic),
        p, Range(order))

estimate_with_order(est, p, order, overflow_checks) ==
    estimate_ordered(est, decompose_order(est, p, order), order, overflow_checks)

\* CardinalityEstimatorManual::estimate
manual_estimate(cat, cp, overflow_checks) ==
    joined([catalog |-> cat],
           EstimateState_estimate_with(Connection(cat), cp, cat.next_table_id, None,
                                       overflow_checks))

(***************************************************************************)
(* Order specification: a catalog is built and estimate_with_order is      *)
(* called once, on a query whose edges carry the tags given, under an      *)
(* order over the vertex tags of the query.                                *)
(***************************************************************************)
TaggedQuery(labels, edges, tags) ==
    to_general(RawPattern([i \in DOMAIN labels |-> PatternVertex(i - 1, labels[i])],
                          [i \in DOMAIN edges |->
                              PatternEdge(tags[i], edges[i][1], edges[i][2], 0)])).pattern

Tagged(shape, tags) == [labels |-> shape.labels, edges |-> shape.edges, tags |-> tags]

\* The largest tag but one, INVALID_TAG_ID being u8::MAX.
LargestValidTag == TagIdModulus - 2

OrderShapes ==
    {Tagged([labels |-> <<0, 0>>, edges |-> <<<<0, 1>>>>], <<0>>),
     Tagged(PathShape, <<0, 1>>),
     Tagged(PathShape, <<1, 0>>),
     Tagged(PathShape, <<LargestValidTag, 0>>),
     Tagged(PathShape, <<LargestValidTag + 1, 0>>),
     Tagged(ForkShape, <<0, 1>>),
     Tagged(TriangleShape, <<0, 1, 2>>),
     Tagged(LongPathShape, <<0, 1, 2>>)}

\* The sequences without repetition over a set of tags.
RECURSIVE Arrangements(_, _)
Arrangements(S, n) ==
    IF n = 0 THEN {<<>>}
    ELSE {<<>>} \cup UNION {{<<x>> \o s : s \in Arrangements(S \ {x}, n - 1)} : x \in S}

\* The orders of a query: every list without repetition of tags of its
\* vertices, and for a query of four vertices the lists of all of them.
Orders(p) ==
    {o \in Arrangements({v.tag_id : v \in Range(p.vertices)}, Len(p.vertices)) :
        /\ o # <<>>
        /\ Len(p.vertices) > 3 => Len(o) = Len(p.vertices)}

\* Both builds where a tag can reach the end of u8, one elsewhere.
Builds(p) ==
    IF \E e \in Range(p.edges) : e.tag_id >= LargestValidTag THEN BOOLEAN ELSE {TRUE}

InitOrder ==
    /\ InitDecompose
    /\ schema = LoopSchema
    /\ get_num_edges(graph, 0) = MaxEstimateEdges

OrderEffect(p, order, est, overflow_checks, decomposed, r) ==
    /\ call' = Some([op |-> "estimate_with_order", pattern |-> p, order |-> order,
                     disable_star |-> est.disable_star,
                     overflow_checks |-> overflow_checks])
    /\ result' = Some([patterns |-> IF decomposed.ok THEN Ok(<<decomposed.value>>)
                                    ELSE decomposed,
                       pivots |-> {x[1] : x \in Range(find_candidate_paths_with_pivots(
                                                          p, Range(order)))},
                       card |-> r.card, runs |-> r.runs])
    /\ catalog' = Some(Ok(r.catalog))

OrderWith(p, order, est, overflow_checks, decomposed) ==
    OrderEffect(p, order, est, overflow_checks, decomposed,
                estimate_ordered(est, decomposed, order, overflow_checks))

OrderCall(p, order, est, overflow_checks) ==
    OrderWith(p, order, est, overflow_checks, decompose_order(est, p, order))

\* CardinalityEstimator::new(..).estimate_with_order(pattern, order)
EstimateWithOrder ==
    /\ catalog.some
    /\ catalog.value.ok
    /\ ~call.some
    /\ \E shape \in OrderShapes, disable_star \in BOOLEAN :
          \E order \in Orders(TaggedQuery(shape.labels, shape.edges, shape.tags)),
             overflow_checks \in Builds(TaggedQuery(shape.labels, shape.edges, shape.tags)) :
              OrderCall(TaggedQuery(shape.labels, shape.edges, shape.tags), order,
                        CardinalityEstimator_new(catalog.value.value, MaxPathLength,
                                                 MaxStarLength, MaxStarDegree, 1,
                                                 disable_star, FALSE, FALSE),
                        overflow_checks)
    /\ UNCHANGED <<workerVars, binVars, schema, graph, bucket_map, statistics, dir, patternVars>>

NextOrder == BuildCatalog \/ EstimateWithOrder

SpecOrder == InitOrder /\ [][NextOrder]_vars

(***************************************************************************)
(* The tags of the hyperedges made during an elimination.                  *)
(***************************************************************************)
OrderCalled == call.some /\ call.value.op = "estimate_with_order"

\* The panics of the new tag: e.tag_id() + 1 past u8::MAX with overflow
\* checks, and the key found in edge_table_map.
NewTagPanics ==
    {Err("attempt to add with overflow"), Err("assertion failed: insert(..).is_none()")}

LiveEdgeTags(cp) == {e.tag_id : e \in Range(catalog_edges(cp))}

\* The tags of the hyperedges of a run before its k-th elimination: those
\* of the pattern of the decomposer and of every pattern since.
TagsUsedBefore(run, k) ==
    UNION {LiveEdgeTags(run.steps[j].before) : j \in 1..k}

NewEdgeTags(step) == LiveEdgeTags(step.after) \ LiveEdgeTags(step.before)

\* C30: for query edge tags anywhere in 0..255, the tag of every new
\* hyperedge of an elimination is 1 + the largest live hyperedge tag, fits
\* in eight bits and is none of the hyperedge tags used earlier in the
\* estimation, so that neither the addition nor the insertion into
\* edge_table_map panics.
C30_NewEdgeTagFitsAndIsFresh ==
    OrderCalled =>
        /\ result.value.card \notin NewTagPanics
        /\ \A i \in DOMAIN result.value.runs :
              \A k \in DOMAIN RunOf(i).steps :
                  /\ NewEdgeTags(RunOf(i).steps[k]) =
                         {SetMax(LiveEdgeTags(RunOf(i).steps[k].before)) + 1}
                  /\ NewEdgeTags(RunOf(i).steps[k]) \subseteq 0..(TagIdModulus - 1)
                  /\ NewEdgeTags(RunOf(i).steps[k]) \cap TagsUsedBefore(RunOf(i), k) = {}

\* What holds: the tags of the new hyperedges fit and are fresh where the
\* edge tags of the query stay below the largest valid tag.
NewEdgeTagFitsBelowLargestTag ==
    (OrderCalled /\ \A e \in Range(call.value.pattern.edges) : e.tag_id < LargestValidTag) =>
        /\ result.value.card \notin NewTagPanics
        /\ \A i \in DOMAIN result.value.runs :
              \A k \in DOMAIN RunOf(i).steps :
                  /\ NewEdgeTags(RunOf(i).steps[k]) =
                         {SetMax(LiveEdgeTags(RunOf(i).steps[k].before)) + 1}
                  /\ NewEdgeTags(RunOf(i).steps[k]) \cap TagsUsedBefore(RunOf(i), k) = {}

\* The addition overflows in a build with overflow checks: the path of two
\* edges tagged 254 and 0, the second elimination after the new tag 255.
NewTagOverflowReached ==
    /\ OrderCalled
    /\ call.value.overflow_checks
    /\ call.value.pattern = TaggedQuery(PathShape.labels, PathShape.edges,
                                        <<LargestValidTag, 0>>)
    /\ call.value.order = <<0, 1>>
    /\ call.value.disable_star
    /\ result.value.card = Err("attempt to add with overflow")

\* In a build without them 255 + 1 wraps to 0 and the largest of the tags
\* is 255 again, a key edge_table_map holds.
NewTagKeyPresentReached ==
    /\ OrderCalled
    /\ ~call.value.overflow_checks
    /\ call.value.pattern = TaggedQuery(PathShape.labels, PathShape.edges,
                                        <<LargestValidTag, 0>>)
    /\ call.value.order = <<2, 1>>
    /\ call.value.disable_star
    /\ result.value.card = Err("assertion failed: insert(..).is_none()")

\* An elimination under the largest valid tag that ends in a card.
LargestTagCardReached ==
    /\ OrderCalled
    /\ \E e \in Range(call.value.pattern.edges) : e.tag_id = LargestValidTag
    /\ result.value.card.ok
    /\ \E i \in DOMAIN result.value.runs : RunOf(i).steps # <<>>

(***************************************************************************)
(* The predefined order of estimate_with_order.                            *)
(***************************************************************************)
OrderOf == call.value.order

\* The pattern the decomposer makes of the order.
OrderPattern == result.value.patterns.value[1].catalog_pattern

Victims(run) == [k \in DOMAIN run.steps |-> run.steps[k].victim]

\* The eliminations of a run follow the order from its head, every victim
\* in the pattern it is taken from, none taken from a pattern of one
\* vertex, and one vertex is left to finalize.
FollowsOrder(run, order) ==
    /\ Len(run.steps) <= Len(order)
    /\ Victims(run) = SubSeq(order, 1, Len(run.steps))
    /\ \A k \in DOMAIN run.steps :
          /\ run.steps[k].victim \in LiveVertexTags(run.steps[k].before)
          /\ get_vertices_num(run.steps[k].before) > 1
    /\ get_vertices_num(run.left) = 1

\* C21: estimate_with_order on a connected pattern under an order of vertex
\* tags of the pattern decomposes with exactly the tags of the order as
\* pivots and eliminates the vertices in the sequence listed, stopping as
\* soon as one vertex is left; every victim is a vertex of the catalog
\* pattern when it is eliminated and one vertex is left when finalize runs.
C21_OrderIsElimination ==
    OrderCalled =>
        /\ result.value.pivots = Range(OrderOf)
        /\ result.value.patterns.ok
        /\ Len(result.value.runs) = 1
        /\ FollowsOrder(RunOf(1), OrderOf)

\* What holds: a call that returns a card has followed the order.
OrderFollowedByCard ==
    (OrderCalled /\ result.value.card.ok) =>
        /\ result.value.pivots = Range(OrderOf)
        /\ Len(result.value.runs) = 1
        /\ FollowsOrder(RunOf(1), OrderOf)

IsPermutationOrder ==
    Range(OrderOf) = {v.tag_id : v \in Range(call.value.pattern.vertices)}

\* A victim of the order that the pattern of the decomposer does not hold,
\* a leaf of the query merged into a star, is reached with more than one
\* vertex left: incident_edges(victim).unwrap() panics.
AbsentVictimReached ==
    /\ OrderCalled
    /\ IsPermutationOrder
    /\ result.value.patterns.ok
    /\ get_vertices_num(OrderPattern) > 1
    /\ OrderOf[1] \notin LiveVertexTags(OrderPattern)
    /\ result.value.card = Err("panic")

\* An order of vertices of the pattern of the decomposer that ends with
\* more than one of them left: the assertion of finalize fails.
ShortOrderReached ==
    /\ OrderCalled
    /\ result.value.patterns.ok
    /\ Range(OrderOf) \subseteq LiveVertexTags(OrderPattern)
    /\ Len(OrderOf) < get_vertices_num(OrderPattern) - 1
    /\ result.value.card = Err("panic")

\* An order of all vertices followed to a card over two eliminations.
OrderCardReached ==
    /\ OrderCalled
    /\ IsPermutationOrder
    /\ result.value.card.ok
    /\ Len(RunOf(1).steps) = 2
    /\ Len(RunOf(1).steps) < Len(OrderOf)

(***************************************************************************)
(* Calls specification: a catalog is built and the estimators are called one*)
(* on it one after another: estimate, estimate_with_order and the manual   *)
(* estimate, on patterns among which one names a path table the catalog    *)
(* lacks and fails in DuckDB after its first view.                         *)
(***************************************************************************)
MaxCalls == 2

CallQueries == {Query(<<0, 0>>, <<<<0, 1>>>>), Query(PathShape.labels, PathShape.edges)}

CallOrders == {<<1>>, <<0, 1>>, <<2, 1, 0>>}

\* The labels of the path tables of a catalog, and the least label of none.
PathTableLabels(cat) == {n[2] : n \in {m \in DOMAIN cat.tables : m[1] = "path"}}

AbsentPathLabel(cat) ==
    CHOOSE l \in 0..Cardinality(PathTableLabels(cat)) :
        /\ l \notin PathTableLabels(cat)
        /\ \A m \in 0..(l - 1) : m \in PathTableLabels(cat)

\* CatalogPattern::new with two vertices and one path edge per label.
ManualPattern(labels) ==
    LET vertices == add_vertex(add_vertex(CatalogPattern_new, CatalogVertex(0, 0)).value,
                               CatalogVertex(1, 0)).value
        with[k \in 0..Len(labels)] ==
            IF k = 0 THEN vertices
            ELSE add_edge(with[k - 1], CatalogEdge_path(k - 1, labels[k], 0, 1)).value
    IN  with[Len(labels)]

ManualPatterns(cat) ==
    {ManualPattern(<<l>>) : l \in PathTableLabels(cat)}
        \cup {ManualPattern(<<l, AbsentPathLabel(cat)>>) : l \in PathTableLabels(cat)}

CallsMade == IF call.some THEN call.value.count ELSE 0

CallEffect(op, cat, r) ==
    /\ call' = Some([op |-> op, count |-> CallsMade + 1,
                     next_table_id |-> cat.next_table_id, views |-> cat.views])
    /\ result' = Some([card |-> r.card, runs |-> r.runs])
    /\ catalog' = Some(Ok(r.catalog))

CallEstimator(disable_star) ==
    CardinalityEstimator_new(catalog.value.value, MaxPathLength, MaxStarLength,
                             MaxStarDegree, 1, disable_star, FALSE, FALSE)

\* CardinalityEstimator::new(..).estimate(pattern)
CallEstimate ==
    /\ catalog.some
    /\ catalog.value.ok
    /\ CallsMade < MaxCalls
    /\ \E p \in CallQueries :
          CallEffect("estimate", catalog.value.value,
                     CardinalityEstimator_estimate(CallEstimator(FALSE), p))
    /\ UNCHANGED <<workerVars, binVars, schema, graph, bucket_map, statistics, dir, patternVars>>

\* CardinalityEstimator::new(..).estimate_with_order(pattern, order)
CallEstimateWithOrder ==
    /\ catalog.some
    /\ catalog.value.ok
    /\ CallsMade < MaxCalls
    /\ \E order \in CallOrders, disable_star \in BOOLEAN :
          CallEffect("estimate_with_order", catalog.value.value,
                     estimate_with_order(CallEstimator(disable_star),
                                         Query(PathShape.labels, PathShape.edges),
                                         order, TRUE))
    /\ UNCHANGED <<workerVars, binVars, schema, graph, bucket_map, statistics, dir, patternVars>>

\* CardinalityEstimatorManual::new(catalog).estimate(pattern)
CallManualEstimate ==
    /\ catalog.some
    /\ catalog.value.ok
    /\ CallsMade < MaxCalls
    /\ \E cp \in ManualPatterns(catalog.value.value) :
          CallEffect("manual", catalog.value.value,
                     manual_estimate(catalog.value.value, cp, TRUE))
    /\ UNCHANGED <<workerVars, binVars, schema, graph, bucket_map, statistics, dir, patternVars>>

NextCalls == BuildCatalog \/ CallEstimate \/ CallEstimateWithOrder \/ CallManualEstimate

SpecCalls == InitOrder /\ [][NextCalls]_vars

(***************************************************************************)
(* The ids of the temporary views over a sequence of calls.                *)
(***************************************************************************)
EstimatorCalled == call.some /\ call.value.op \in {"estimate", "estimate_with_order", "manual"}

\* The views the last call created.
ViewsCreated == catalog.value.value.views \ call.value.views

\* C29: over any sequence of calls of estimate, estimate_with_order and the
\* manual estimate on one catalog, calls that fail after creating views
\* among them, no view is created under the name of an earlier one: after
\* each call next_table_id of the catalog is above every id the call has
\* consumed.
C29_NextTableIdAboveConsumed ==
    EstimatorCalled =>
        /\ \A v \in ViewsCreated : v[2] < catalog.value.value.next_table_id
        /\ \A v \in ViewsCreated : v[2] >= call.value.next_table_id

\* What holds: next_table_id is above the ids of a call that returns a card.
NextTableIdAboveConsumedByCard ==
    (EstimatorCalled /\ result.value.card.ok) =>
        /\ ViewsCreated # {}
        /\ \A v \in ViewsCreated : v[2] < catalog.value.value.next_table_id
        /\ \A v \in ViewsCreated : v[2] >= call.value.next_table_id

\* The first call on a catalog fails in DuckDB only for the manual pattern
\* of the absent table.
FirstCallFailsOnAbsentTableOnly ==
    (EstimatorCalled /\ call.value.count = 1 /\ result.value.card = Err("DuckDB")) =>
        call.value.op = "manual"

\* A call fails after creating a view and leaves next_table_id at its id.
FailedCallKeepsIdReached ==
    /\ EstimatorCalled
    /\ result.value.card = Err("DuckDB")
    /\ \E v \in ViewsCreated : v[2] = catalog.value.value.next_table_id

\* The call after it finds the name of its first view taken.
ViewNameTakenReached ==
    /\ EstimatorCalled
    /\ call.value.count = 2
    /\ call.value.op # "manual"
    /\ result.value.card = Err("DuckDB")
    /\ \E v \in call.value.views : v[2] = call.value.next_table_id

\* Two calls that return cards, the second on the views of the first.
SecondCardReached ==
    /\ EstimatorCalled
    /\ call.value.count = 2
    /\ result.value.card.ok
    /\ call.value.views # {}

====
